---- MODULE Spec2Model ----
(***************************************************************************)
(* Model of the product scraping engine of cartpe-product-scraper:         *)
(* run_product_scraping (src/main.py) fans scrape_store_products out over  *)
(* a ThreadPoolExecutor; each store worker walks its categories, calls     *)
(* ProductScraper.extract_products page by page, refreshes the web token   *)
(* once on a 403 and hands every category's products to                    *)
(* ProductService.bulk_upsert_products.                                    *)
(***************************************************************************)
EXTENDS Integers, Sequences, FiniteSets, TLC

(* ------------------------------ bounds -------------------------------- *)
\* stores in the stores table of the pool specification
NumStores == 3
\* settings.MAX_WORKERS is read from the environment; the model runs the pool
\* with this many worker threads
MAX_WORKERS == 2
\* rows of the categories table in the single-store specification
NumCats == 2
\* rows of the categories table in the pool specification
PoolCats == 1
\* pages with products one extract_products call is served before the listing ends
MaxPages == 2
\* product ids the lists given to bulk_upsert_products are drawn from
NumProducts == 2
\* products in one list given to bulk_upsert_products
MaxBatch == 2
\* calls of bulk_upsert_products in the persistence specification
MaxCalls == 3
\* stores, each with one category, in the specification of concurrent writers
PairStores == 2
\* calls of extract_token in the token specification
MaxTokenCalls == 4
\* category pages a store has before its REST listing is exhausted
MaxCatPages == 2

(* ------------------------- program constants --------------------------- *)
\* offset += 12
PageSize == 12
\* def get_connection(cls, max_retries=3, retry_delay=1)
max_retries == 3
retry_delay == 1
\* woocommerce extract_categories: per_page = 100
per_page == 100
\* Optional[...] results: None is the empty tuple, a value is a non-empty tuple
None == <<>>

(* --------------------------- upstream site ----------------------------- *)
\* what one product card of a listing page can look like: complete with prices that
\* convert ("card"), without the link, the h6 or the button, or complete with an h6
\* whose price text does not convert to a number ("bad_price")
FragmentKinds == {"card", "no_link", "no_h6", "no_button", "bad_price"}
\* listing pages (sequences of product cards) of the single-store specification
WorkerPages == {<<>>, <<"card">>, <<"no_h6">>, <<"card", "card">>, <<"no_link", "card">>,
                <<"card", "no_button">>, <<"bad_price", "card">>}
\* a full page: as many cards as the offset advances by
FullPage == [i \in 1..12 |-> "card"]
\* a shorter last page with five cards
ShortPage == [i \in 1..5 |-> "card"]
\* listing pages of the scenario specification
ScenarioPages == {<<>>, FullPage, ShortPage}
\* listing pages of the pool specification
PoolPages == {<<>>, <<"card">>}
\* the HTML the products endpoint serves for a listing page requested at an offset:
\* the i-th card carries the native product id offset + i - 1
Body(tpl, getresult) ==
    [i \in 1..Len(tpl) |-> [kind |-> tpl[i], product_id |-> getresult + i - 1]]

VARIABLES
    site_pages,      \* listing pages the storefronts can serve in this run
    db_stores,       \* stores table: store_id -> [web_token, base_url]
    db_categories,   \* categories table: store_id -> sequence of category ids <<store_id, k>>
    db_products,     \* products table: set of rows [store_id, product_id, category_id, is_active]
    orch,            \* position of run_product_scraping
    stores,          \* run_product_scraping: stores (result of get_all_stores)
    submitted,       \* number of stores already handed to executor.submit
    queue,           \* ThreadPoolExecutor work queue (store ids, FIFO)
    successful,      \* run_product_scraping: successful
    failed,          \* run_product_scraping: failed
    run_total,       \* run_product_scraping: total_products
    summary,         \* the summary lines logged at the end, None before
    pc,              \* position of each store's scrape_store_products call
    store_data,      \* the store dict each worker holds
    categories,      \* scrape_store_products: categories
    idx,             \* index of the category of the for loop
    attempt,         \* 1 in the try body, 2 in the retry of the except handler
    offset,          \* extract_products: offset
    page,            \* extract_products: page
    all_products,    \* extract_products: all_products
    products,        \* scrape_store_products: products
    new_token,       \* scrape_store_products: new_token
    total_products,  \* scrape_store_products: total_products
    future,          \* the Future of each submitted call: its result tuple or its exception
    reqs,            \* requests of the extract_products call in progress or just ended
    calls,           \* calls each worker made, in order, until its future is consumed
    tbl,             \* products table with all its columns, as committed
    clock,           \* what datetime.now() returns next
    ncalls,          \* calls of bulk_upsert_products made so far
    gc,              \* position of the bulk_upsert_products call inside get_connection
    data,            \* bulk_upsert_products: data, the parameter tuples of the batch
    conn,            \* get_connection: connection ("none", "open", "closed", "lost")
    txn,             \* the products table as the open transaction sees it
    executed,        \* parameter tuples of data that cursor.executemany has executed
    gc_attempt,      \* get_connection: attempt
    yielded,         \* the generator of get_connection has yielded a connection
    waits,           \* the time.sleep calls of this get_connection, in order
    errs,            \* the errors its except clause handled, in order
    outcome,         \* how the last bulk_upsert_products call ended
    start_tbl,       \* the committed table when the call in progress (or last) began
    prev_list,       \* the list of the last call that committed before this one
    tk,              \* position of the extract_token call
    tk_resp,         \* what the homepage request of this extract_token call meets
    tk_ret,          \* what the call is about to return or raise, then what it did
    tk_slept,        \* the time.sleep calls of this extract_token call
    tk_log,          \* the extract_token calls that ended, in order
    cat_pc,          \* position of the extract_categories call
    cat_kind,        \* the CategoryScraper variant called ("html" or "rest")
    cat_site,        \* what the store serves for each category page request
    cat_page,        \* extract_categories: page
    cat_list,        \* extract_categories: categories
    cat_reqs,        \* the requests of the extract_categories call, in order
    cat_slept,       \* the time.sleep calls of the extract_categories call
    det_pc,          \* position of the _extract_product_details call
    det_element,     \* the product element the call is given
    det_result       \* what the call returned, None before

orch_vars == <<orch, stores, submitted, queue, successful, failed, run_total, summary>>
db_vars == <<db_stores, db_categories, db_products>>
extract_vars == <<offset, page, all_products, reqs>>
worker_vars == <<pc, store_data, categories, idx, attempt, products, new_token,
                 total_products, future, calls>>
\* the persistence layer seen statement by statement
dbm_vars == <<tbl, clock, ncalls, gc, data, conn, txn, executed, gc_attempt, yielded, waits, errs,
              outcome, start_tbl, prev_list>>
\* TokenScraper.extract_token seen statement by statement
tok_vars == <<tk, tk_resp, tk_ret, tk_slept, tk_log>>
\* the two CategoryScraper.extract_categories seen statement by statement
cat_vars == <<cat_pc, cat_kind, cat_site, cat_page, cat_list, cat_reqs, cat_slept>>
\* ProductScraper._extract_product_details on one element
det_vars == <<det_pc, det_element, det_result>>
scraper_vars == <<tok_vars, cat_vars, det_vars>>
\* the scraping run
run_vars == <<site_pages, db_vars, orch_vars, worker_vars, extract_vars>>
vars == <<site_pages, db_vars, orch_vars, worker_vars, extract_vars, dbm_vars,
          scraper_vars>>

StoreIds == DOMAIN db_stores

(* ----------------------- ProductScraper parsing ------------------------ *)
\* as _extract_product_details, but the product dict is not given the ids of the
\* store and category it was scraped for: every product goes to the first store
_extract_product_details_unscoped(element, store_id, category_id) ==
    IF element.kind \in {"no_link", "no_h6", "no_button", "bad_price"} THEN None
    ELSE <<[store_id |-> 1, category_id |-> <<1, 1>>, product_id |-> element.product_id]>>

\* _extract_product_details: None when the link, the h6 or the button is missing
\* (lines 167-185), and None from the except clause (236-238) when a price text
\* does not convert
_extract_product_details(element, store_id, category_id) ==
    IF element.kind = "no_link" THEN None
    ELSE IF element.kind = "no_h6" THEN None
    ELSE IF element.kind = "no_button" THEN None
    ELSE IF element.kind = "bad_price" THEN None
    ELSE <<[store_id |-> store_id, category_id |-> category_id,
            product_id |-> element.product_id]>>

RECURSIVE _parse_products_html(_, _, _)
\* as _parse_products_html, but an element without details ends the loop over the
\* elements: the products before it are returned
_parse_products_html_aborting(html, store_id, category_id) ==
    LET dropped == {i \in 1..Len(html) :
                       _extract_product_details(html[i], store_id, category_id) = None}
        last == IF dropped = {} THEN Len(html)
                ELSE (CHOOSE i \in dropped : \A j \in dropped : i <= j) - 1
    IN [i \in 1..last |-> _extract_product_details(html[i], store_id, category_id)[1]]

\* _parse_products_html: the products of the elements that have details, in page order
_parse_products_html(html, store_id, category_id) ==
    IF html = <<>> THEN <<>>
    ELSE _extract_product_details(Head(html), store_id, category_id)
             \o _parse_products_html(Tail(html), store_id, category_id)

(* ----------------------- responses of the upstream --------------------- *)
\* a POST to the products endpoint either fails in the network or has a status and a body
NetFail == [status |-> 0, body |-> <<>>]
Responses(s, getresult) ==
    {NetFail, [status |-> 403, body |-> <<>>], [status |-> 500, body |-> <<>>]}
        \cup {[status |-> 200, body |-> Body(tpl, getresult)] : tpl \in site_pages}

(* ------------------------------ database ------------------------------- *)
RECURSIVE Upsert(_, _)
\* INSERT ... ON DUPLICATE KEY UPDATE on the key (store_id, product_id), row by row
Upsert(table, prods) ==
    IF prods = <<>> THEN table
    ELSE LET p == Head(prods)
             kept == {r \in table : ~(r.store_id = p.store_id /\ r.product_id = p.product_id)}
             row == [store_id |-> p.store_id, product_id |-> p.product_id,
                     category_id |-> p.category_id, is_active |-> TRUE]
         IN Upsert(kept \cup {row}, Tail(prods))

\* one entry of the log of a worker: a call it made (arg: what the call returned or
\* was given), an exception raised to it, or an error line it logged
Call(op, c, arg) == [op |-> op, category |-> c, arg |-> arg]

\* rows of the categories table of store s
CategoryRows(s, n) == [k \in 1..n |-> <<s, k>>]
\* the web token the stores table holds for store s before the run
OldToken(s) == <<s, 0>>
\* the web token the homepage of store s shows during the run
FreshToken(s) == <<s, 1>>
\* the value of every worker local before a call and after its return
NoStoreData == [web_token |-> None, base_url |-> None]
NoFuture == [result |-> None, exception |-> FALSE]

(* -------------------------------- Init --------------------------------- *)
RECURSIVE Total(_, _)
\* the sum of a function of numbers over the set S
Total(n, S) ==
    IF S = {} THEN 0
    ELSE LET x == CHOOSE y \in S : TRUE IN n[x] + Total(n, S \ {x})

\* the stores ids, at most maxcats categories over all of them, and the listing
\* pages the storefronts serve
InitRun(ids, maxcats, pages) ==
    /\ site_pages = pages
    /\ \E u \in [ids -> BOOLEAN] :
           db_stores = [s \in ids |-> [web_token |-> OldToken(s),
                                       base_url |-> IF u[s] THEN <<"url", s>> ELSE None]]
    /\ \E n \in [ids -> 0..maxcats] :
           /\ Total(n, ids) <= maxcats
           /\ db_categories = [s \in ids |-> CategoryRows(s, n[s])]
    /\ db_products = {}
    /\ orch = "load"
    /\ stores = <<>>
    /\ submitted = 0
    /\ queue = <<>>
    /\ successful = 0
    /\ failed = 0
    /\ run_total = 0
    /\ summary = None
    /\ pc = [s \in ids |-> "idle"]
    /\ store_data = [s \in ids |-> NoStoreData]
    /\ categories = [s \in ids |-> <<>>]
    /\ idx = [s \in ids |-> 0]
    /\ attempt = [s \in ids |-> 0]
    /\ offset = [s \in ids |-> 0]
    /\ page = [s \in ids |-> 0]
    /\ all_products = [s \in ids |-> <<>>]
    /\ products = [s \in ids |-> <<>>]
    /\ new_token = [s \in ids |-> None]
    /\ total_products = [s \in ids |-> 0]
    /\ future = [s \in ids |-> NoFuture]
    /\ reqs = [s \in ids |-> <<>>]
    /\ calls = [s \in ids |-> <<>>]

\* how a bulk_upsert_products call ended: what came out of execute_many, and what
\* the call returned ("rowcount", or "0": of an empty list or from the except clause)
Ended(raised, returned) == [raised |-> raised, returned |-> returned]
\* no call of bulk_upsert_products was made
NotCalled == Ended("none", "none")

\* the persistence layer before any call, with these rows in the products table
DbStart(rows) ==
    /\ tbl = rows
    /\ clock = 1
    /\ ncalls = 0
    /\ gc = "idle"
    /\ data = <<>>
    /\ conn = "none"
    /\ txn = rows
    /\ executed = 0
    /\ gc_attempt = 0
    /\ yielded = FALSE
    /\ waits = <<>>
    /\ errs = <<>>
    /\ outcome = NotCalled
    /\ start_tbl = rows
    /\ prev_list = <<>>
\* the scraping specifications take bulk_upsert_products as one step of the worker
DbIdle == DbStart({})

\* how an extract_token call leaves: by an exception or with a value (a token or None)
TokenEnd(raised, value) == [raised |-> raised, value |-> value]
\* no extract_token call in progress and none made
TokenIdle ==
    /\ tk = "idle"
    /\ tk_resp = None
    /\ tk_ret = TokenEnd(FALSE, None)
    /\ tk_slept = <<>>
    /\ tk_log = <<>>
\* an extract_categories call of this variant about to be made on this store
CategoriesStart(kind, site) ==
    /\ cat_pc = "idle"
    /\ cat_kind = kind
    /\ cat_site = site
    /\ cat_page = 0
    /\ cat_list = <<>>
    /\ cat_reqs = <<>>
    /\ cat_slept = <<>>
\* an _extract_product_details call about to be made on this element
DetailsStart(el) ==
    /\ det_pc = "idle"
    /\ det_element = el
    /\ det_result = None
\* the scraping run calls extract_token and the parser as one step and no CategoryScraper
ScrapersIdle == TokenIdle /\ CategoriesStart("none", <<>>) /\ DetailsStart(None)

\* one store, up to NumCats categories
Init == InitRun({1}, NumCats, WorkerPages) /\ DbIdle /\ ScrapersIdle
\* NumStores stores with up to PoolCats categories between them
PoolInit == InitRun(1..NumStores, PoolCats, PoolPages) /\ DbIdle /\ ScrapersIdle

\* one store, up to NumCats categories, pages of twelve, five and no cards
ScenarioInit == InitRun({1}, NumCats, ScenarioPages) /\ DbIdle /\ ScrapersIdle

(* ------------------------ run_product_scraping ------------------------- *)
RECURSIVE SeqOfSet(_)
\* the rows of SELECT * FROM stores, in store_id order
SeqOfSet(S) ==
    IF S = {} THEN <<>>
    ELSE LET m == CHOOSE x \in S : \A y \in S : x <= y
         IN <<m>> \o SeqOfSet(S \ {m})

\* StoreService.get_all_stores: the rows, or [] when the query raised
get_all_stores(dbok) == IF dbok THEN SeqOfSet(StoreIds) ELSE <<>>

\* lines 98-105: load the stores; return at once when there are none
LoadStores ==
    /\ orch = "load"
    /\ \E dbok \in BOOLEAN :
          /\ stores' = get_all_stores(dbok)
          /\ orch' = IF stores' = <<>> THEN "done" ELSE "submit"
    /\ UNCHANGED <<submitted, queue, successful, failed, run_total, summary>>
    /\ UNCHANGED <<site_pages, db_vars, worker_vars, extract_vars>>
    /\ UNCHANGED <<dbm_vars, scraper_vars>>

\* line 116: executor.submit(scrape_store_products, store) for the next store
Submit ==
    /\ orch = "submit"
    /\ submitted < Len(stores)
    /\ LET s == stores[submitted + 1] IN
          /\ queue' = Append(queue, s)
          /\ pc' = [pc EXCEPT ![s] = "queued"]
          /\ store_data' = [store_data EXCEPT ![s] = db_stores[s]]
    /\ submitted' = submitted + 1
    /\ orch' = IF submitted' = Len(stores) THEN "collect" ELSE "submit"
    /\ UNCHANGED <<stores, successful, failed, run_total, summary>>
    /\ UNCHANGED <<categories, idx, attempt, products, new_token, total_products,
                   future, calls>>
    /\ UNCHANGED <<site_pages, db_vars, extract_vars>>
    /\ UNCHANGED <<dbm_vars, scraper_vars>>

\* as Running, but a thread that has finished a call is never given another one
RunningNeverFreed == {s \in StoreIds : pc[s] \notin {"idle", "queued"}}

\* the calls of scrape_store_products a pool thread is executing
Running == {s \in StoreIds : pc[s] \notin {"idle", "queued", "returned", "collected"}}

\* as ThreadAvailable, but the pool starts a thread for every work item
ThreadAlwaysAvailable == TRUE

\* ThreadPoolExecutor(max_workers=settings.MAX_WORKERS): a work item leaves the
\* queue only when one of the MAX_WORKERS threads is free
ThreadAvailable == Cardinality(Running) < MAX_WORKERS

\* a pool thread takes the oldest work item; lines 25-29 of scrape_store_products
StartWorker(s) ==
    /\ s \in StoreIds
    /\ queue # <<>>
    /\ s = Head(queue)
    /\ ThreadAvailable
    /\ queue' = Tail(queue)
    /\ pc' = [pc EXCEPT ![s] = "start"]
    /\ total_products' = [total_products EXCEPT ![s] = 0]
    /\ UNCHANGED <<orch, stores, submitted, successful, failed, run_total, summary>>
    /\ UNCHANGED <<store_data, categories, idx, attempt, products, new_token, future, calls>>
    /\ UNCHANGED <<site_pages, db_vars, extract_vars>>
    /\ UNCHANGED <<dbm_vars, scraper_vars>>

(* ------------------------------ services ------------------------------- *)
\* CategoryService.get_categories_by_store: the rows, or [] when the query raised
get_categories_by_store(s, dbok) == IF dbok THEN db_categories[s] ELSE <<>>

\* ProductService.bulk_upsert_products: nothing for an empty list; the batch is
\* written in one transaction, and an error of it is logged and swallowed
bulk_upsert_products(table, prods, dbok) ==
    IF prods = <<>> THEN table
    ELSE IF dbok THEN Upsert(table, prods)
    ELSE table

\* as update_store_token, but the UPDATE has no WHERE store_id clause
update_every_store_token(table, s, token, dbok) ==
    IF dbok THEN [t \in DOMAIN table |-> [table[t] EXCEPT !.web_token = token]] ELSE table

\* StoreService.update_store_token: UPDATE stores SET web_token; an error is swallowed
update_store_token(table, s, token, dbok) ==
    IF dbok THEN [table EXCEPT ![s].web_token = token] ELSE table

\* the homepage of store s: a network failure, an error status, a page without the
\* token assignment, or a page with it; the last also as the final answer 304, a
\* status below 400 that is not a 2xx
HomePages(s) ==
    {NetFail, [status |-> 500, body |-> None], [status |-> 200, body |-> None],
     [status |-> 200, body |-> FreshToken(s)], [status |-> 304, body |-> FreshToken(s)]}

\* response.raise_for_status(): HTTPError for a status from 400 to 599
HTTPError(resp) == 400 <= resp.status /\ resp.status < 600

\* TokenScraper.extract_token: the token of the page, None when the request failed
\* (raise_for_status included) or the pattern does not match. A response has a
\* status from 100 on; NetFail and Unexpected are no responses
extract_token(resp) ==
    IF resp.status >= 100 /\ ~HTTPError(resp) THEN resp.body ELSE None

(* ----------------------- scrape_store_products ------------------------- *)
\* the category the for loop is at
Category(s) == categories[s][idx[s]]

\* the frame of extract_products is gone once it returned or raised
ExtractGone(s) ==
    /\ offset' = [offset EXCEPT ![s] = 0]
    /\ page' = [page EXCEPT ![s] = 0]
    /\ all_products' = [all_products EXCEPT ![s] = <<>>]

\* return tuple: (store_id, store_name, product_count, success); the store's name
\* is its id here. The frame of scrape_store_products is gone after it
Return(s, product_count, success) ==
    /\ pc' = [pc EXCEPT ![s] = "returned"]
    /\ future' = [future EXCEPT ![s] = [result |-> <<s, s, product_count, success>>,
                                        exception |-> FALSE]]
    /\ categories' = [categories EXCEPT ![s] = <<>>]
    /\ idx' = [idx EXCEPT ![s] = 0]
    /\ attempt' = [attempt EXCEPT ![s] = 0]
    /\ products' = [products EXCEPT ![s] = <<>>]
    /\ new_token' = [new_token EXCEPT ![s] = None]
    /\ total_products' = [total_products EXCEPT ![s] = 0]
    /\ ExtractGone(s)

\* as NoCategories, but a store without categories has them extracted and inserted
\* by the worker, as fetch_and_store_categories does for a new store
NoCategoriesExtracts(s) ==
    /\ s \in StoreIds
    /\ pc[s] = "start"
    /\ \E dbok \in BOOLEAN : get_categories_by_store(s, dbok) = <<>>
    /\ db_categories' = [db_categories EXCEPT ![s] = CategoryRows(s, 1)]
    /\ calls' = [calls EXCEPT ![s] =
                    @ \o <<Call("get_categories_by_store", None, <<>>),
                           Call("extract_categories", None, CategoryRows(s, 1))>>]
    /\ Return(s, 0, FALSE)
    /\ UNCHANGED <<store_data, reqs>>
    /\ UNCHANGED <<site_pages, db_stores, db_products, orch_vars>>
    /\ UNCHANGED <<dbm_vars, scraper_vars>>

\* lines 33-37: no categories (none in the table, or the query failed): return False
NoCategories(s) ==
    /\ s \in StoreIds
    /\ pc[s] = "start"
    /\ \E dbok \in BOOLEAN : get_categories_by_store(s, dbok) = <<>>
    /\ calls' = [calls EXCEPT ![s] = Append(@, Call("get_categories_by_store", None, <<>>))]
    /\ Return(s, 0, FALSE)
    /\ UNCHANGED <<store_data, reqs>>
    /\ UNCHANGED <<site_pages, db_vars, orch_vars>>
    /\ UNCHANGED <<dbm_vars, scraper_vars>>

\* lines 33-42: the categories are loaded and the for loop starts
GetCategories(s) ==
    /\ s \in StoreIds
    /\ pc[s] = "start"
    /\ \E dbok \in BOOLEAN :
          /\ get_categories_by_store(s, dbok) # <<>>
          /\ categories' = [categories EXCEPT ![s] = get_categories_by_store(s, dbok)]
    /\ idx' = [idx EXCEPT ![s] = 1]
    /\ pc' = [pc EXCEPT ![s] = "for"]
    /\ calls' = [calls EXCEPT ![s] =
                    Append(@, Call("get_categories_by_store", None, categories'[s]))]
    /\ UNCHANGED <<store_data, attempt, products, new_token, total_products, future>>
    /\ UNCHANGED <<site_pages, db_vars, orch_vars, extract_vars>>
    /\ UNCHANGED <<dbm_vars, scraper_vars>>

\* lines 42, 83-84: the for loop is exhausted: return (.., total_products, True)
ForDone(s) ==
    /\ s \in StoreIds
    /\ pc[s] = "for"
    /\ idx[s] > Len(categories[s])
    /\ Return(s, total_products[s], TRUE)
    /\ UNCHANGED <<store_data, reqs, calls>>
    /\ UNCHANGED <<site_pages, db_vars, orch_vars>>
    /\ UNCHANGED <<dbm_vars, scraper_vars>>

\* as BeginCategory, but every category starts with the token the store row had when
\* the run began
BeginCategoryWithStartToken(s) ==
    /\ s \in StoreIds
    /\ pc[s] = "for"
    /\ idx[s] <= Len(categories[s])
    /\ store_data[s].base_url # None
    /\ store_data' = [store_data EXCEPT ![s].web_token = OldToken(s)]
    /\ pc' = [pc EXCEPT ![s] = "extract"]
    /\ attempt' = [attempt EXCEPT ![s] = 1]
    /\ offset' = [offset EXCEPT ![s] = 0]
    /\ page' = [page EXCEPT ![s] = 1]
    /\ all_products' = [all_products EXCEPT ![s] = <<>>]
    /\ reqs' = [reqs EXCEPT ![s] = <<>>]
    /\ calls' = [calls EXCEPT ![s] = Append(@, Call("extract_products", Category(s), <<>>))]
    /\ UNCHANGED <<categories, idx, products, new_token, total_products, future>>
    /\ UNCHANGED <<site_pages, db_vars, orch_vars>>
    /\ UNCHANGED <<dbm_vars, scraper_vars>>

\* lines 42-45 and extract_products lines 35-49: the call for the next category starts
BeginCategory(s) ==
    /\ s \in StoreIds
    /\ pc[s] = "for"
    /\ idx[s] <= Len(categories[s])
    /\ store_data[s].base_url # None
    /\ pc' = [pc EXCEPT ![s] = "extract"]
    /\ attempt' = [attempt EXCEPT ![s] = 1]
    /\ offset' = [offset EXCEPT ![s] = 0]
    /\ page' = [page EXCEPT ![s] = 1]
    /\ all_products' = [all_products EXCEPT ![s] = <<>>]
    /\ reqs' = [reqs EXCEPT ![s] = <<>>]
    /\ calls' = [calls EXCEPT ![s] = Append(@, Call("extract_products", Category(s), <<>>))]
    /\ UNCHANGED <<store_data, categories, idx, products, new_token, total_products, future>>
    /\ UNCHANGED <<site_pages, db_vars, orch_vars>>
    /\ UNCHANGED <<dbm_vars, scraper_vars>>

\* as CategoryError, but the error of the category reaches the outer handler of
\* lines 86-89, which returns (.., 0, False)
CategoryErrorFailsStore(s) ==
    /\ s \in StoreIds
    /\ pc[s] = "for"
    /\ idx[s] <= Len(categories[s])
    /\ store_data[s].base_url = None
    /\ Return(s, 0, FALSE)
    /\ calls' = [calls EXCEPT ![s] =
                    @ \o <<Call("extract_products", Category(s), <<>>),
                           Call("error processing store", Category(s), <<>>)>>]
    /\ UNCHANGED <<store_data, reqs>>
    /\ UNCHANGED <<site_pages, db_vars, orch_vars>>
    /\ UNCHANGED <<dbm_vars, scraper_vars>>

\* extract_products line 37 raises (base_url is NULL: None has no rstrip), and
\* lines 77-81 log it and continue with the next category
CategoryError(s) ==
    /\ s \in StoreIds
    /\ pc[s] = "for"
    /\ idx[s] <= Len(categories[s])
    /\ store_data[s].base_url = None
    /\ idx' = [idx EXCEPT ![s] = @ + 1]
    /\ calls' = [calls EXCEPT ![s] =
                    @ \o <<Call("extract_products", Category(s), <<>>),
                           Call("error processing category", Category(s), <<>>)>>]
    /\ UNCHANGED <<pc, store_data, categories, attempt, products, new_token,
                   total_products, future>>
    /\ UNCHANGED <<site_pages, db_vars, orch_vars, extract_vars>>
    /\ UNCHANGED <<dbm_vars, scraper_vars>>

(* ------------------- ProductScraper.extract_products ------------------- *)
\* lines 57-62: the form posted for the page at the current offset, with what came
\* back: the status, the body with its number of product cards, and the products parsed
Posted(s, resp, parsed) ==
    [getresult |-> offset[s], web_token |-> store_data[s].web_token,
     category_slug |-> Category(s), status |-> resp.status, cards |-> Len(resp.body),
     html |-> resp.body, parsed |-> parsed]

\* line 113 and lines 45/69 of main.py: the list goes to the caller's products
ExtractReturns(s, list) ==
    /\ products' = [products EXCEPT ![s] = list]
    /\ pc' = [pc EXCEPT ![s] = "got"]
    /\ ExtractGone(s)
    /\ UNCHANGED <<store_data, categories, idx, attempt, new_token, total_products, future>>

\* as RequestPage, but the loop has a page cap of its own: it returns after the page
RequestPageCapped(s) ==
    /\ s \in StoreIds
    /\ pc[s] = "extract"
    /\ page[s] <= MaxPages
    /\ \E resp \in Responses(s, offset[s]) :
          LET parsed == _parse_products_html(resp.body, s, Category(s)) IN
          /\ resp.status = 200
          /\ parsed # <<>>
          /\ reqs' = [reqs EXCEPT ![s] = Append(@, Posted(s, resp, parsed))]
          /\ ExtractReturns(s, all_products[s] \o parsed)
          /\ calls' = [calls EXCEPT ![s] =
                          Append(@, Call("extract_products returned", Category(s),
                                         all_products[s] \o parsed))]
    /\ UNCHANGED <<site_pages, db_vars, orch_vars>>
    /\ UNCHANGED <<dbm_vars, scraper_vars>>

\* as RequestPage, but the offset advances by the number of products of the page
RequestPageByCount(s) ==
    /\ s \in StoreIds
    /\ pc[s] = "extract"
    /\ page[s] <= MaxPages
    /\ \E resp \in Responses(s, offset[s]) :
          LET parsed == _parse_products_html(resp.body, s, Category(s)) IN
          /\ resp.status = 200
          /\ parsed # <<>>
          /\ all_products' = [all_products EXCEPT ![s] = @ \o parsed]
          /\ reqs' = [reqs EXCEPT ![s] = Append(@, Posted(s, resp, parsed))]
          /\ offset' = [offset EXCEPT ![s] = @ + Len(parsed)]
    /\ page' = [page EXCEPT ![s] = @ + 1]
    /\ UNCHANGED worker_vars
    /\ UNCHANGED <<site_pages, db_vars, orch_vars>>
    /\ UNCHANGED <<dbm_vars, scraper_vars>>

\* lines 69-99: a 200 page with products: extend, offset += 12, page += 1
RequestPage(s) ==
    /\ s \in StoreIds
    /\ pc[s] = "extract"
    /\ page[s] <= MaxPages
    /\ \E resp \in Responses(s, offset[s]) :
          LET parsed == _parse_products_html(resp.body, s, Category(s)) IN
          /\ resp.status = 200
          /\ parsed # <<>>
          /\ all_products' = [all_products EXCEPT ![s] = @ \o parsed]
          /\ reqs' = [reqs EXCEPT ![s] = Append(@, Posted(s, resp, parsed))]
    /\ offset' = [offset EXCEPT ![s] = @ + PageSize]
    /\ page' = [page EXCEPT ![s] = @ + 1]
    /\ UNCHANGED worker_vars
    /\ UNCHANGED <<site_pages, db_vars, orch_vars>>
    /\ UNCHANGED <<dbm_vars, scraper_vars>>

\* as RequestLast, but the loop goes on to the next offset instead of breaking
RequestLastContinues(s) ==
    /\ s \in StoreIds
    /\ pc[s] = "extract"
    /\ \E resp \in Responses(s, offset[s]) :
          /\ resp.status = 200
          /\ _parse_products_html(resp.body, s, Category(s)) = <<>>
          /\ reqs' = [reqs EXCEPT ![s] = Append(@, Posted(s, resp, <<>>))]
    /\ offset' = [offset EXCEPT ![s] = @ + PageSize]
    /\ page' = [page EXCEPT ![s] = @ + 1]
    /\ UNCHANGED all_products
    /\ UNCHANGED worker_vars
    /\ UNCHANGED <<site_pages, db_vars, orch_vars>>
    /\ UNCHANGED <<dbm_vars, scraper_vars>>

\* lines 69-89: a 200 page without a parsed product: break and return all_products
RequestLast(s) ==
    /\ s \in StoreIds
    /\ pc[s] = "extract"
    /\ \E resp \in Responses(s, offset[s]) :
          /\ resp.status = 200
          /\ _parse_products_html(resp.body, s, Category(s)) = <<>>
          /\ reqs' = [reqs EXCEPT ![s] = Append(@, Posted(s, resp, <<>>))]
    /\ ExtractReturns(s, all_products[s])
    /\ calls' = [calls EXCEPT ![s] =
                    Append(@, Call("extract_products returned", Category(s), all_products[s]))]
    /\ UNCHANGED <<site_pages, db_vars, orch_vars>>
    /\ UNCHANGED <<dbm_vars, scraper_vars>>

\* as RequestFails, but the error leaves extract_products: the first attempt's is
\* caught by lines 77-81 (continue), the retry's by lines 86-89 (return False)
RequestFailsRaises(s) ==
    /\ s \in StoreIds
    /\ pc[s] = "extract"
    /\ \E resp \in Responses(s, offset[s]) :
          /\ resp.status \notin {200, 403}
          /\ reqs' = [reqs EXCEPT ![s] = Append(@, Posted(s, resp, <<>>))]
    /\ calls' = [calls EXCEPT ![s] =
                    Append(@, Call("error fetching products", Category(s), <<>>))]
    /\ IF attempt[s] = 1
       THEN /\ pc' = [pc EXCEPT ![s] = "for"]
            /\ idx' = [idx EXCEPT ![s] = @ + 1]
            /\ ExtractGone(s)
            /\ UNCHANGED <<categories, attempt, products, new_token, total_products, future>>
       ELSE Return(s, 0, FALSE)
    /\ UNCHANGED store_data
    /\ UNCHANGED <<site_pages, db_vars, orch_vars>>
    /\ UNCHANGED <<dbm_vars, scraper_vars>>

\* as RequestFails, but the handler returns an empty list instead of all_products
RequestFailsDropsPartial(s) ==
    /\ s \in StoreIds
    /\ pc[s] = "extract"
    /\ \E resp \in Responses(s, offset[s]) :
          /\ resp.status \notin {200, 403}
          /\ reqs' = [reqs EXCEPT ![s] = Append(@, Posted(s, resp, <<>>))]
    /\ ExtractReturns(s, <<>>)
    /\ calls' = [calls EXCEPT ![s] =
                    @ \o <<Call("error fetching products", Category(s), <<>>),
                           Call("extract_products returned", Category(s), <<>>)>>]
    /\ UNCHANGED <<site_pages, db_vars, orch_vars>>
    /\ UNCHANGED <<dbm_vars, scraper_vars>>

\* lines 69-80, 103-108: the request fails or raise_for_status raises: break and
\* return all_products
RequestFails(s) ==
    /\ s \in StoreIds
    /\ pc[s] = "extract"
    /\ \E resp \in Responses(s, offset[s]) :
          /\ resp.status \notin {200, 403}
          /\ reqs' = [reqs EXCEPT ![s] = Append(@, Posted(s, resp, <<>>))]
    /\ ExtractReturns(s, all_products[s])
    /\ calls' = [calls EXCEPT ![s] =
                    @ \o <<Call("error fetching products", Category(s), <<>>),
                           Call("extract_products returned", Category(s), all_products[s])>>]
    /\ UNCHANGED <<site_pages, db_vars, orch_vars>>
    /\ UNCHANGED <<dbm_vars, scraper_vars>>

\* whether the call that raised had already collected products of earlier pages
Partial(list) == IF list = <<>> THEN <<>> ELSE <<"partial">>

\* as FirstExpired, but what the aborted attempt had collected is upserted and counted
FirstExpiredSavesPartial(s) ==
    /\ pc' = [pc EXCEPT ![s] = "expired"]
    /\ ExtractGone(s)
    /\ calls' = [calls EXCEPT ![s] =
                    Append(@, Call("TokenExpiredException", Category(s), Partial(all_products[s])))]
    /\ db_products' = Upsert(db_products, all_products[s])
    /\ total_products' = [total_products EXCEPT ![s] = @ + Len(all_products[s])]
    /\ UNCHANGED <<store_data, categories, idx, attempt, products, new_token, future>>

\* main.py lines 55-56: TokenExpiredException raised by the first attempt (line 45)
FirstExpired(s) ==
    /\ pc' = [pc EXCEPT ![s] = "expired"]
    /\ ExtractGone(s)
    /\ calls' = [calls EXCEPT ![s] =
                    Append(@, Call("TokenExpiredException", Category(s), Partial(all_products[s])))]
    /\ UNCHANGED <<store_data, categories, idx, attempt, products, new_token,
                   total_products, future, db_products>>

\* as RetryExpired, but the expiry of the retry is handled like the first one
RetryExpiredRefreshes(s) ==
    /\ pc' = [pc EXCEPT ![s] = "expired"]
    /\ ExtractGone(s)
    /\ calls' = [calls EXCEPT ![s] =
                    Append(@, Call("TokenExpiredException", Category(s), Partial(all_products[s])))]
    /\ UNCHANGED <<store_data, categories, idx, attempt, products, new_token,
                   total_products, future, db_products>>

\* as RetryExpired, but the outer handler returns the count reached so far
RetryExpiredReportsCount(s) ==
    /\ Return(s, total_products[s], FALSE)
    /\ calls' = [calls EXCEPT ![s] =
                    @ \o <<Call("TokenExpiredException", Category(s), Partial(all_products[s])),
                           Call("error processing store", Category(s), <<>>)>>]
    /\ UNCHANGED <<store_data, db_products>>

\* main.py lines 86-89: TokenExpiredException raised by the retry (line 69) is not
\* caught by the handlers of the inner try; the outer handler returns (.., 0, False)
RetryExpired(s) ==
    /\ Return(s, 0, FALSE)
    /\ calls' = [calls EXCEPT ![s] =
                    @ \o <<Call("TokenExpiredException", Category(s), Partial(all_products[s])),
                           Call("error processing store", Category(s), <<>>)>>]
    /\ UNCHANGED <<store_data, db_products>>

\* as RequestForbidden, but the 403 is left to raise_for_status and the generic
\* handler: break and return all_products
RequestForbiddenAbsorbed(s) ==
    /\ s \in StoreIds
    /\ pc[s] = "extract"
    /\ \E resp \in Responses(s, offset[s]) :
          /\ resp.status = 403
          /\ reqs' = [reqs EXCEPT ![s] = Append(@, Posted(s, resp, <<>>))]
    /\ ExtractReturns(s, all_products[s])
    /\ calls' = [calls EXCEPT ![s] =
                    @ \o <<Call("error fetching products", Category(s), <<>>),
                           Call("extract_products returned", Category(s), all_products[s])>>]
    /\ UNCHANGED <<site_pages, db_vars, orch_vars>>
    /\ UNCHANGED <<dbm_vars, scraper_vars>>

\* lines 74-78, 101-102: a 403 raises TokenExpiredException out of extract_products
RequestForbidden(s) ==
    /\ s \in StoreIds
    /\ pc[s] = "extract"
    /\ \E resp \in Responses(s, offset[s]) :
          /\ resp.status = 403
          /\ reqs' = [reqs EXCEPT ![s] = Append(@, Posted(s, resp, <<>>))]
    /\ IF attempt[s] = 1 THEN FirstExpired(s) ELSE RetryExpired(s)
    /\ UNCHANGED <<site_pages, db_stores, db_categories, orch_vars>>
    /\ UNCHANGED <<dbm_vars, scraper_vars>>

(* ------------------ scrape_store_products, continued ------------------- *)
\* as SaveProducts, but the list is only counted and its upsert is left for later
SaveProductsDeferred(s) ==
    /\ s \in StoreIds
    /\ pc[s] = "got"
    /\ products[s] # <<>>
    /\ total_products' = [total_products EXCEPT ![s] = @ + Len(products[s])]
    /\ products' = [products EXCEPT ![s] = <<>>]
    /\ idx' = [idx EXCEPT ![s] = @ + 1]
    /\ pc' = [pc EXCEPT ![s] = "for"]
    /\ reqs' = [reqs EXCEPT ![s] = <<>>]
    /\ UNCHANGED <<store_data, categories, attempt, new_token, future, calls>>
    /\ UNCHANGED <<offset, page, all_products>>
    /\ UNCHANGED <<site_pages, db_vars, orch_vars>>
    /\ UNCHANGED <<dbm_vars, scraper_vars>>

\* as SaveProducts, but the retry branch upserts its list without counting it
SaveProductsRetryUncounted(s) ==
    /\ s \in StoreIds
    /\ pc[s] = "got"
    /\ products[s] # <<>>
    /\ \E dbok \in BOOLEAN :
          /\ db_products' = bulk_upsert_products(db_products, products[s], dbok)
          /\ calls' = [calls EXCEPT ![s] =
                 @ \o <<Call("bulk_upsert_products", Category(s), products[s])>>
                   \o IF dbok THEN <<>>
                      ELSE <<Call("error bulk upserting products", Category(s), <<>>)>>]
    /\ total_products' = [total_products EXCEPT ![s] =
                             IF attempt[s] = 1 THEN @ + Len(products[s]) ELSE @]
    /\ products' = [products EXCEPT ![s] = <<>>]
    /\ idx' = [idx EXCEPT ![s] = @ + 1]
    /\ pc' = [pc EXCEPT ![s] = "for"]
    /\ reqs' = [reqs EXCEPT ![s] = <<>>]
    /\ UNCHANGED <<store_data, categories, attempt, new_token, future>>
    /\ UNCHANGED <<offset, page, all_products>>
    /\ UNCHANGED <<site_pages, db_stores, db_categories, orch_vars>>
    /\ UNCHANGED <<dbm_vars, scraper_vars>>

\* lines 47-53 (first attempt) and 70-72 (retry): a non-empty list is upserted and
\* counted; then the for loop goes on. products is dead until it is assigned again
SaveProducts(s) ==
    /\ s \in StoreIds
    /\ pc[s] = "got"
    /\ products[s] # <<>>
    /\ \E dbok \in BOOLEAN :
          /\ db_products' = bulk_upsert_products(db_products, products[s], dbok)
          /\ calls' = [calls EXCEPT ![s] =
                 @ \o <<Call("bulk_upsert_products", Category(s), products[s])>>
                   \o IF dbok THEN <<>>
                      ELSE <<Call("error bulk upserting products", Category(s), <<>>)>>]
    /\ total_products' = [total_products EXCEPT ![s] = @ + Len(products[s])]
    /\ products' = [products EXCEPT ![s] = <<>>]
    /\ idx' = [idx EXCEPT ![s] = @ + 1]
    /\ pc' = [pc EXCEPT ![s] = "for"]
    /\ reqs' = [reqs EXCEPT ![s] = <<>>]
    /\ UNCHANGED <<store_data, categories, attempt, new_token, future>>
    /\ UNCHANGED <<offset, page, all_products>>
    /\ UNCHANGED <<site_pages, db_stores, db_categories, orch_vars>>
    /\ UNCHANGED <<dbm_vars, scraper_vars>>

\* lines 47, 70: an empty list is neither upserted nor counted
NoProducts(s) ==
    /\ s \in StoreIds
    /\ pc[s] = "got"
    /\ products[s] = <<>>
    /\ idx' = [idx EXCEPT ![s] = @ + 1]
    /\ pc' = [pc EXCEPT ![s] = "for"]
    /\ reqs' = [reqs EXCEPT ![s] = <<>>]
    /\ UNCHANGED <<store_data, categories, attempt, products, new_token,
                   total_products, future, calls>>
    /\ UNCHANGED <<offset, page, all_products>>
    /\ UNCHANGED <<site_pages, db_vars, orch_vars>>
    /\ UNCHANGED <<dbm_vars, scraper_vars>>

\* lines 58-61: TokenScraper().extract_token(store_data)
ExtractToken(s) ==
    /\ s \in StoreIds
    /\ pc[s] = "expired"
    /\ \E home \in HomePages(s) : new_token' = [new_token EXCEPT ![s] = extract_token(home)]
    /\ calls' = [calls EXCEPT ![s] =
                    Append(@, Call("extract_token", Category(s), new_token'[s]))]
    /\ pc' = [pc EXCEPT ![s] = "refreshed"]
    /\ reqs' = [reqs EXCEPT ![s] = <<>>]
    /\ UNCHANGED <<store_data, categories, idx, attempt, products, total_products, future>>
    /\ UNCHANGED <<offset, page, all_products>>
    /\ UNCHANGED <<site_pages, db_vars, orch_vars>>
    /\ UNCHANGED <<dbm_vars, scraper_vars>>

\* as TokenRefreshed, but the retry is started without waiting for its result and
\* the for loop goes on to the next category
TokenRefreshedInBackground(s) ==
    /\ s \in StoreIds
    /\ pc[s] = "refreshed"
    /\ new_token[s] # None
    /\ \E dbok \in BOOLEAN :
          db_stores' = update_store_token(db_stores, s, new_token[s], dbok)
    /\ store_data' = [store_data EXCEPT ![s].web_token = new_token[s]]
    /\ calls' = [calls EXCEPT ![s] =
                    @ \o <<Call("update_store_token", Category(s), new_token[s]),
                           Call("extract_products", Category(s), <<>>)>>]
    /\ pc' = [pc EXCEPT ![s] = "for"]
    /\ idx' = [idx EXCEPT ![s] = @ + 1]
    /\ attempt' = [attempt EXCEPT ![s] = 2]
    /\ reqs' = [reqs EXCEPT ![s] = <<>>]
    /\ UNCHANGED <<categories, products, new_token, total_products, future>>
    /\ UNCHANGED <<offset, page, all_products>>
    /\ UNCHANGED <<site_pages, db_categories, db_products, orch_vars>>
    /\ UNCHANGED <<dbm_vars, scraper_vars>>

\* lines 63-69: the token is stored and put into store_data, and the retry of the
\* same category starts (extract_products lines 35-49)
TokenRefreshed(s) ==
    /\ s \in StoreIds
    /\ pc[s] = "refreshed"
    /\ new_token[s] # None
    /\ \E dbok \in BOOLEAN :
          db_stores' = update_store_token(db_stores, s, new_token[s], dbok)
    /\ store_data' = [store_data EXCEPT ![s].web_token = new_token[s]]
    /\ calls' = [calls EXCEPT ![s] =
                    @ \o <<Call("update_store_token", Category(s), new_token[s]),
                           Call("extract_products", Category(s), <<>>)>>]
    /\ pc' = [pc EXCEPT ![s] = "extract"]
    /\ attempt' = [attempt EXCEPT ![s] = 2]
    /\ offset' = [offset EXCEPT ![s] = 0]
    /\ page' = [page EXCEPT ![s] = 1]
    /\ all_products' = [all_products EXCEPT ![s] = <<>>]
    /\ reqs' = [reqs EXCEPT ![s] = <<>>]
    /\ UNCHANGED <<categories, idx, products, new_token, total_products, future>>
    /\ UNCHANGED <<site_pages, db_categories, db_products, orch_vars>>
    /\ UNCHANGED <<dbm_vars, scraper_vars>>

\* lines 73-75, 83-84: no token: break out of the for loop, return (.., total_products, True)
TokenMissing(s) ==
    /\ s \in StoreIds
    /\ pc[s] = "refreshed"
    /\ new_token[s] = None
    /\ Return(s, total_products[s], TRUE)
    /\ calls' = [calls EXCEPT ![s] = Append(@, Call("failed to refresh token", Category(s), <<>>))]
    /\ UNCHANGED <<store_data, reqs>>
    /\ UNCHANGED <<site_pages, db_vars, orch_vars>>
    /\ UNCHANGED <<dbm_vars, scraper_vars>>

(* ------------------- run_product_scraping, continued ------------------- *)
\* as Collect, but a store that failed is counted in neither counter
CollectIgnoresFailed(s) ==
    /\ s \in StoreIds
    /\ orch = "collect"
    /\ pc[s] = "returned"
    /\ pc' = [pc EXCEPT ![s] = "collected"]
    /\ IF future[s].exception
       THEN /\ orch' = "raised"
            /\ UNCHANGED <<successful, failed, run_total>>
       ELSE LET product_count == future[s].result[3]
                success == future[s].result[4]
            IN /\ successful' = IF success THEN successful + 1 ELSE successful
               /\ run_total' = IF success THEN run_total + product_count ELSE run_total
               /\ failed' = failed
               /\ orch' = orch
    /\ reqs' = [reqs EXCEPT ![s] = <<>>]
    /\ calls' = [calls EXCEPT ![s] = <<>>]
    /\ UNCHANGED <<stores, submitted, queue, summary>>
    /\ UNCHANGED <<store_data, categories, idx, attempt, products, new_token,
                   total_products, future>>
    /\ UNCHANGED <<offset, page, all_products>>
    /\ UNCHANGED <<site_pages, db_vars>>
    /\ UNCHANGED <<dbm_vars, scraper_vars>>

\* lines 120-131: as_completed yields a finished future; future.result() re-raises
\* what the call raised, else the store is counted
Collect(s) ==
    /\ s \in StoreIds
    /\ orch = "collect"
    /\ pc[s] = "returned"
    /\ pc' = [pc EXCEPT ![s] = "collected"]
    /\ IF future[s].exception
       THEN /\ orch' = "raised"
            /\ UNCHANGED <<successful, failed, run_total>>
       ELSE LET product_count == future[s].result[3]
                success == future[s].result[4]
            IN /\ successful' = IF success THEN successful + 1 ELSE successful
               /\ run_total' = IF success THEN run_total + product_count ELSE run_total
               /\ failed' = IF success THEN failed ELSE failed + 1
               /\ orch' = orch
    /\ reqs' = [reqs EXCEPT ![s] = <<>>]
    /\ calls' = [calls EXCEPT ![s] = <<>>]
    /\ UNCHANGED <<stores, submitted, queue, summary>>
    /\ UNCHANGED <<store_data, categories, idx, attempt, products, new_token,
                   total_products, future>>
    /\ UNCHANGED <<offset, page, all_products>>
    /\ UNCHANGED <<site_pages, db_vars>>
    /\ UNCHANGED <<dbm_vars, scraper_vars>>

\* lines 133-140: every future was consumed: the summary is logged
Summary ==
    /\ orch = "collect"
    /\ \A i \in 1..Len(stores) : pc[stores[i]] = "collected"
    /\ summary' = <<Len(stores), successful, failed, run_total>>
    /\ orch' = "done"
    /\ UNCHANGED <<stores, submitted, queue, successful, failed, run_total>>
    /\ UNCHANGED <<site_pages, db_vars, worker_vars, extract_vars>>
    /\ UNCHANGED <<dbm_vars, scraper_vars>>

\* the steps of the call of scrape_store_products for store s
Worker(s) ==
    \/ NoCategories(s) \/ GetCategories(s) \/ ForDone(s)
    \/ BeginCategory(s) \/ CategoryError(s)
    \/ RequestPage(s) \/ RequestLast(s) \/ RequestFails(s) \/ RequestForbidden(s)
    \/ SaveProducts(s) \/ NoProducts(s)
    \/ ExtractToken(s) \/ TokenRefreshed(s) \/ TokenMissing(s)

Next ==
    \/ LoadStores
    \/ Submit
    \/ Summary
    \/ \E s \in 1..NumStores :
          \/ StartWorker(s)
          \/ NoCategories(s)
          \/ GetCategories(s)
          \/ ForDone(s)
          \/ BeginCategory(s)
          \/ CategoryError(s)
          \/ RequestPage(s)
          \/ RequestLast(s)
          \/ RequestFails(s)
          \/ RequestForbidden(s)
          \/ SaveProducts(s)
          \/ NoProducts(s)
          \/ ExtractToken(s)
          \/ TokenRefreshed(s)
          \/ TokenMissing(s)
          \/ Collect(s)

\* one store with up to NumCats categories
Spec == Init /\ [][Next]_vars
\* NumStores stores on MAX_WORKERS threads
PoolSpec == PoolInit /\ [][Next]_vars
\* PairStores stores that all have a category, so that their workers write products
\* side by side
PairInit ==
    /\ InitRun(1..PairStores, PairStores, PoolPages)
    /\ \A s \in StoreIds : Len(db_categories[s]) = 1
    /\ DbIdle
    /\ ScrapersIdle
PairSpec == PairInit /\ [][Next]_vars

\* the pool specification with the scheduling the run relies on: the main thread
\* goes on whenever it can, a free pool thread takes the oldest work item, a worker
\* inside its call takes its next step (every call terminates), and as_completed
\* hands over every finished future
FairPoolSpec ==
    /\ PoolSpec
    /\ WF_vars(LoadStores) /\ WF_vars(Submit) /\ WF_vars(Summary)
    /\ \A s \in 1..NumStores :
          WF_vars(StartWorker(s)) /\ WF_vars(Worker(s)) /\ WF_vars(Collect(s))
(* --------- ProductService.bulk_upsert_products, statement by statement --------- *)
\* the natural key of a product row: products has UNIQUE (store_id, product_id)
ProductKey(r) == <<r.store_id, r.product_id>>

\* the product dictionaries a list can hold (the columns that matter here)
DbProducts == [store_id : {1}, product_id : 1..NumProducts, category_id : {1, 2}]
RECURSIVE SeqsUpTo(_, _)
\* the sequences over S of length n or less
SeqsUpTo(S, n) ==
    IF n = 0 THEN {<<>>}
    ELSE LET shorter == SeqsUpTo(S, n - 1)
         IN shorter \cup {Append(q, x) : q \in {r \in shorter : Len(r) = n - 1}, x \in S}
\* the lists bulk_upsert_products is called with
DbLists == SeqsUpTo(DbProducts, MaxBatch)

\* a row an earlier run wrote for product 1, which may have been deactivated since
OldRow(active) ==
    [store_id |-> 1, product_id |-> 1, category_id |-> 1, is_active |-> active,
     last_synced_at |-> 0, created_at |-> 0, updated_at |-> 0]

\* lines 200-219: the parameter tuple of a product
DataRow(prod, now) ==
    [store_id |-> prod.store_id, product_id |-> prod.product_id,
     category_id |-> prod.category_id, is_active |-> TRUE,
     last_synced_at |-> now, created_at |-> now, updated_at |-> now]
\* the product list a batch of parameter tuples was made from
ListOf(batch) ==
    [i \in 1..Len(batch) |-> [store_id |-> batch[i].store_id,
                              product_id |-> batch[i].product_id,
                              category_id |-> batch[i].category_id]]

\* as UpsertRow, but REPLACE INTO: the row of the key is deleted and inserted anew
UpsertRowReplaces(table, d) ==
    {r \in table : ProductKey(r) # ProductKey(d)} \cup {d}

\* as UpsertRow, but the update clause leaves is_active as it is
UpsertRowKeepsFlag(table, d) ==
    IF \E r \in table : ProductKey(r) = ProductKey(d)
    THEN {IF ProductKey(r) = ProductKey(d)
          THEN [r EXCEPT !.category_id = d.category_id,
                         !.last_synced_at = d.last_synced_at,
                         !.updated_at = d.updated_at]
          ELSE r : r \in table}
    ELSE table \cup {d}

\* lines 178-196: INSERT ... ON DUPLICATE KEY UPDATE for one parameter tuple: a new
\* key gets the row; an existing row gets the listed columns, is_active = TRUE and
\* the two timestamps, and keeps created_at
UpsertRow(table, d) ==
    IF \E r \in table : ProductKey(r) = ProductKey(d)
    THEN {IF ProductKey(r) = ProductKey(d)
          THEN [r EXCEPT !.category_id = d.category_id,
                         !.is_active = TRUE,
                         !.last_synced_at = d.last_synced_at,
                         !.updated_at = d.updated_at]
          ELSE r : r \in table}
    ELSE table \cup {d}

RECURSIVE executemany(_, _)
\* cursor.executemany(query, data): the statement for every tuple, in order
executemany(table, batch) ==
    IF batch = <<>> THEN table
    ELSE executemany(UpsertRow(table, Head(batch)), Tail(batch))

\* lines 69-70: is_pool_exhausted or is_deadlock
Retryable(e) == e \in {"pool exhausted", "deadlock"}

\* the call ends: execute_many raised or returned, and bulk_upsert_products returns
DbReturn(raised, returned) ==
    /\ gc' = "idle"
    /\ outcome' = Ended(raised, returned)

\* lines 83-84: what the finally clause makes of connection c. An open connection
\* is closed, which returns it to the pool, when is_connected() is true; when the
\* server is gone is_connected() is false, close is skipped and the connection
\* stays checked out for good ("lost"). No connection, or one found lost before,
\* stays as it is
Finally(c) == IF c = "open" THEN {"closed", "lost"} ELSE {c}

\* lines 82-84, the finally clause, when an error e is on its way out: e goes on to
\* execute_many; bulk_upsert_products (224-226) logs it and returns 0. When
\* connection still names the connection an earlier attempt closed, the pooled
\* connection has no connection behind it and connection.is_connected() raises
\* AttributeError, which takes the place of e
FinallyRaising(e) ==
    /\ conn' \in Finally(conn)
    /\ IF conn = "closed" THEN DbReturn("exception", "0") ELSE DbReturn(e, "0")

\* as Except, but every database error is retried
ExceptRetriesAny(e) ==
    /\ errs' = Append(errs, e)
    /\ txn' = tbl
    /\ IF gc_attempt < max_retries - 1
       THEN /\ waits' = Append(waits, retry_delay * 2^gc_attempt)
            /\ gc' = "sleep"
            /\ UNCHANGED <<conn, outcome>>
       ELSE /\ FinallyRaising(e)
            /\ UNCHANGED waits
    /\ UNCHANGED gc_attempt

\* get_connection lines 57-81: the except clause rolls back; a pool-exhausted or
\* deadlock error before the last attempt enters time.sleep with the connection as
\* it is; any other is re-raised through the finally clause
Except(e) ==
    /\ errs' = Append(errs, e)
    /\ txn' = tbl
    /\ IF Retryable(e) /\ gc_attempt < max_retries - 1
       THEN /\ waits' = Append(waits, retry_delay * 2^gc_attempt)
            /\ gc' = "sleep"
            /\ UNCHANGED <<conn, outcome>>
       ELSE /\ FinallyRaising(e)
            /\ UNCHANGED waits
    /\ UNCHANGED gc_attempt

\* the last call committed its batch
LastCommitted == outcome = Ended("none", "rowcount")
\* the list of the last call that committed
PrevList == IF LastCommitted THEN ListOf(data) ELSE prev_list

\* lines 175-176: an empty list returns 0 without touching the database
BulkUpsertEmpty ==
    /\ gc = "idle"
    /\ ncalls < MaxCalls
    /\ ncalls' = ncalls + 1
    /\ data' = <<>>
    /\ start_tbl' = tbl
    /\ prev_list' = PrevList
    /\ outcome' = Ended("none", "0")
    /\ conn' = "none"
    /\ executed' = 0
    /\ gc_attempt' = 0
    /\ yielded' = FALSE
    /\ waits' = <<>>
    /\ errs' = <<>>
    /\ UNCHANGED <<tbl, clock, gc, txn>>
    /\ UNCHANGED <<run_vars, scraper_vars>>

\* lines 198-220: now is read, data is built and execute_many enters get_connection
\* (database.py 103, 45-51)
BulkUpsertBegin ==
    /\ gc = "idle"
    /\ ncalls < MaxCalls
    /\ ncalls' = ncalls + 1
    /\ \E products_list \in DbLists \ {<<>>} :
          data' = [i \in 1..Len(products_list) |-> DataRow(products_list[i], clock)]
    /\ clock' = clock + 1
    /\ start_tbl' = tbl
    /\ prev_list' = PrevList
    /\ outcome' = Ended("running", "none")
    /\ gc' = "acquire"
    /\ conn' = "none"
    /\ txn' = tbl
    /\ executed' = 0
    /\ gc_attempt' = 0
    /\ yielded' = FALSE
    /\ waits' = <<>>
    /\ errs' = <<>>
    /\ UNCHANGED tbl
    /\ UNCHANGED <<run_vars, scraper_vars>>

\* get_connection lines 53-54: the pool gives a connection and the generator yields
\* it to the with statement of execute_many
GetConnection ==
    /\ gc = "acquire"
    /\ ~yielded
    /\ conn' = "open"
    /\ txn' = tbl
    /\ yielded' = TRUE
    /\ gc' = "body"
    /\ UNCHANGED <<tbl, clock, ncalls, data, executed, gc_attempt, waits, errs, outcome,
                   start_tbl, prev_list>>
    /\ UNCHANGED <<run_vars, scraper_vars>>

\* lines 53-54 after a continue that followed the body: the generator yields a second
\* time, which contextlib answers with RuntimeError (generator didn't stop); the body
\* is not run again, nothing is committed, and bulk_upsert_products returns 0.
\* The generator stays suspended at that yield with the second connection: its
\* finally clause (83-84) runs when the generator is closed, which the interpreter
\* does before the with statement is left, or only when the generator is reclaimed
GetConnectionAgain ==
    /\ gc = "acquire"
    /\ yielded
    /\ conn' \in Finally("open") \cup {"open"}
    /\ txn' = tbl
    /\ DbReturn("RuntimeError", "0")
    /\ UNCHANGED <<tbl, clock, ncalls, data, executed, gc_attempt, yielded, waits, errs,
                   start_tbl, prev_list>>
    /\ UNCHANGED <<run_vars, scraper_vars>>

\* lines 77-78, 82-84 and 51: the sleep is over and continue runs the finally clause
\* on the connection; the loop goes to its next attempt. When connection still
\* names the connection an earlier attempt closed, connection.is_connected() raises
\* AttributeError: no further attempt is made, execute_many raises it and
\* bulk_upsert_products returns 0
SleepContinue ==
    /\ gc = "sleep"
    /\ IF conn = "closed"
       THEN /\ DbReturn("exception", "0")
            /\ UNCHANGED <<conn, gc_attempt>>
       ELSE /\ conn' \in Finally(conn)
            /\ gc_attempt' = gc_attempt + 1
            /\ gc' = "acquire"
            /\ UNCHANGED outcome
    /\ UNCHANGED <<tbl, clock, ncalls, data, txn, executed, yielded, waits, errs,
                   start_tbl, prev_list>>
    /\ UNCHANGED <<run_vars, scraper_vars>>

\* line 53 raises: the pool is exhausted, or the server cannot be reached
GetConnectionFails ==
    /\ gc = "acquire"
    /\ \E e \in {"pool exhausted", "other"} : Except(e)
    /\ UNCHANGED <<tbl, clock, ncalls, data, executed, yielded, start_tbl, prev_list>>
    /\ UNCHANGED <<run_vars, scraper_vars>>

\* execute_many lines 104-109: every statement of the batch ran; the body is left
ExecuteMany ==
    /\ gc = "body"
    /\ txn' = executemany(txn, data)
    /\ executed' = Len(data)
    /\ gc' = "commit"
    /\ UNCHANGED <<tbl, clock, ncalls, data, conn, gc_attempt, yielded, waits, errs,
                   outcome, start_tbl, prev_list>>
    /\ UNCHANGED <<run_vars, scraper_vars>>

\* as ExecuteManyFails, but the connection runs with autocommit: the statements
\* executed before the failing one stay
ExecuteManyFailsAutocommit ==
    /\ gc = "body"
    /\ \E k \in 0..(Len(data) - 1) :
          /\ executed' = k
          /\ tbl' = executemany(tbl, SubSeq(data, 1, k))
    /\ \E e \in {"deadlock", "other"} :
          /\ errs' = Append(errs, e)
          /\ DbReturn(e, "0")
    /\ txn' = tbl'
    /\ conn' = "closed"
    /\ UNCHANGED <<clock, ncalls, data, gc_attempt, yielded, waits, start_tbl, prev_list>>
    /\ UNCHANGED <<run_vars, scraper_vars>>

\* line 106 raises a database error after some statements of the batch: the error is
\* thrown into the generator at its yield
ExecuteManyFails ==
    /\ gc = "body"
    /\ \E k \in 0..(Len(data) - 1) : executed' = k
    /\ \E e \in {"deadlock", "other"} : Except(e)
    /\ UNCHANGED <<tbl, clock, ncalls, data, yielded, start_tbl, prev_list>>
    /\ UNCHANGED <<run_vars, scraper_vars>>

\* line 106 raises something that is no mysql.connector Error: the except clause
\* does not apply, the finally clause runs without a commit (the pool resets the
\* session of a connection it takes back, and a lost connection has none: the open
\* transaction is dropped)
ExecuteManyRaises ==
    /\ gc = "body"
    /\ \E k \in 0..(Len(data) - 1) : executed' = k
    /\ txn' = tbl
    /\ conn' \in Finally(conn)
    /\ DbReturn("exception", "0")
    /\ UNCHANGED <<tbl, clock, ncalls, data, gc_attempt, yielded, waits, errs,
                   start_tbl, prev_list>>
    /\ UNCHANGED <<run_vars, scraper_vars>>

\* get_connection lines 55-56 and 83-84: commit, return, the finally clause;
\* execute_many returns the row count and bulk_upsert_products returns it (221-222)
Commit ==
    /\ gc = "commit"
    /\ tbl' = txn
    /\ conn' \in Finally(conn)
    /\ DbReturn("none", "rowcount")
    /\ UNCHANGED <<clock, ncalls, data, txn, executed, gc_attempt, yielded, waits, errs,
                   start_tbl, prev_list>>
    /\ UNCHANGED <<run_vars, scraper_vars>>

\* line 55 raises: the commit failed
CommitFails ==
    /\ gc = "commit"
    /\ \E e \in {"deadlock", "other"} : Except(e)
    /\ UNCHANGED <<tbl, clock, ncalls, data, executed, yielded, start_tbl, prev_list>>
    /\ UNCHANGED <<run_vars, scraper_vars>>

\* no scraping run; the products table is empty or holds a row of an earlier run
DbInit ==
    /\ InitRun({1}, 0, {<<>>})
    /\ db_stores[1].base_url # None
    /\ \E rows \in {{}, {OldRow(TRUE)}, {OldRow(FALSE)}} : DbStart(rows)
    /\ ScrapersIdle

DbNext ==
    \/ BulkUpsertEmpty
    \/ BulkUpsertBegin
    \/ GetConnection
    \/ GetConnectionAgain
    \/ GetConnectionFails
    \/ SleepContinue
    \/ ExecuteMany
    \/ ExecuteManyFails
    \/ ExecuteManyRaises
    \/ Commit
    \/ CommitFails

\* up to MaxCalls calls of bulk_upsert_products, one after the other
DbSpec == DbInit /\ [][DbNext]_vars

\* one store whose storefront serves pages of twelve, five and no products
ScenarioSpec == ScenarioInit /\ [][Next]_vars

(* ============ TokenScraper.extract_token, statement by statement ============ *)
\* the store the token specification scrapes
TokenStore == CHOOSE s \in StoreIds : TRUE
\* session.get raised an exception that is not a RequestException
Unexpected == [status |-> -1, body |-> <<>>]
\* what the GET of the homepage of store s can meet: the responses of HomePages, an
\* error page that carries the script with the token, a redirect without Location
\* and without the token, and an unexpected exception; a store without base_url has
\* no URL to request (MissingSchema)
HomeRequests(s) ==
    IF db_stores[s].base_url = None THEN {NetFail}
    ELSE HomePages(s) \cup {[status |-> 404, body |-> FreshToken(s)],
                            [status |-> 302, body |-> None], Unexpected}

\* lines 30-36: the call reads store_data and enters the try block
TokenCall ==
    /\ tk = "idle"
    /\ Len(tk_log) < MaxTokenCalls
    /\ \E home \in HomeRequests(TokenStore) : tk_resp' = home
    /\ tk' = "get"
    /\ tk_ret' = TokenEnd(FALSE, None)
    /\ tk_slept' = <<>>
    /\ UNCHANGED tk_log
    /\ UNCHANGED <<run_vars, dbm_vars, cat_vars, det_vars>>

\* line 38: session.get returns the response or raises
TokenGet ==
    /\ tk = "get"
    /\ tk' = IF tk_resp = NetFail THEN "except RequestException"
             ELSE IF tk_resp = Unexpected THEN "except Exception"
             ELSE "raise_for_status"
    /\ UNCHANGED <<tk_resp, tk_ret, tk_slept, tk_log>>
    /\ UNCHANGED <<run_vars, dbm_vars, cat_vars, det_vars>>

\* line 39: raise_for_status raises HTTPError for a 4xx or 5xx status
TokenRaiseForStatus ==
    /\ tk = "raise_for_status"
    /\ tk' = IF HTTPError(tk_resp) THEN "except RequestException" ELSE "search"
    /\ UNCHANGED <<tk_resp, tk_ret, tk_slept, tk_log>>
    /\ UNCHANGED <<run_vars, dbm_vars, cat_vars, det_vars>>

\* lines 42-53: the pattern is searched: return the token, or None without a match
TokenSearch ==
    /\ tk = "search"
    /\ tk_ret' = TokenEnd(FALSE, tk_resp.body)
    /\ tk' = "finally"
    /\ UNCHANGED <<tk_resp, tk_slept, tk_log>>
    /\ UNCHANGED <<run_vars, dbm_vars, cat_vars, det_vars>>

\* as TokenExceptRequest, but the delay is the last statement of the try block
TokenExceptRequestNoDelay ==
    /\ tk = "except RequestException"
    /\ tk_ret' = TokenEnd(FALSE, None)
    /\ tk' = "returned"
    /\ UNCHANGED <<tk_resp, tk_slept, tk_log>>
    /\ UNCHANGED <<run_vars, dbm_vars, cat_vars, det_vars>>

\* lines 55-57: except requests.RequestException: log, return None
TokenExceptRequest ==
    /\ tk = "except RequestException"
    /\ tk_ret' = TokenEnd(FALSE, None)
    /\ tk' = "finally"
    /\ UNCHANGED <<tk_resp, tk_slept, tk_log>>
    /\ UNCHANGED <<run_vars, dbm_vars, cat_vars, det_vars>>

\* as TokenExceptOther, but without the except Exception clause
TokenExceptOtherEscapes ==
    /\ tk = "except Exception"
    /\ tk_ret' = TokenEnd(TRUE, None)
    /\ tk' = "finally"
    /\ UNCHANGED <<tk_resp, tk_slept, tk_log>>
    /\ UNCHANGED <<run_vars, dbm_vars, cat_vars, det_vars>>

\* lines 58-60: except Exception: log, return None
TokenExceptOther ==
    /\ tk = "except Exception"
    /\ tk_ret' = TokenEnd(FALSE, None)
    /\ tk' = "finally"
    /\ UNCHANGED <<tk_resp, tk_slept, tk_log>>
    /\ UNCHANGED <<run_vars, dbm_vars, cat_vars, det_vars>>

\* lines 61-63: finally: time.sleep(settings.REQUEST_DELAY), then the call leaves
TokenFinally ==
    /\ tk = "finally"
    /\ tk_slept' = Append(tk_slept, "REQUEST_DELAY")
    /\ tk' = "returned"
    /\ UNCHANGED <<tk_resp, tk_ret, tk_log>>
    /\ UNCHANGED <<run_vars, dbm_vars, cat_vars, det_vars>>

\* main.py lines 60-66: the caller has the value; it stores a token that is not None
TokenCaller ==
    /\ tk = "returned"
    /\ tk_log' = Append(tk_log, [resp |-> tk_resp, ret |-> tk_ret, slept |-> tk_slept])
    /\ IF ~tk_ret.raised /\ tk_ret.value # None
       THEN \E dbok \in BOOLEAN :
               db_stores' = update_store_token(db_stores, TokenStore, tk_ret.value, dbok)
       ELSE db_stores' = db_stores
    /\ tk' = "idle"
    /\ UNCHANGED <<tk_resp, tk_ret, tk_slept>>
    /\ UNCHANGED <<site_pages, db_categories, db_products, orch_vars, worker_vars,
                   extract_vars>>
    /\ UNCHANGED <<dbm_vars, cat_vars, det_vars>>

\* one store without categories; nothing but extract_token and its caller runs
TokenInit ==
    /\ InitRun({1}, 0, {<<>>})
    /\ DbIdle
    /\ ScrapersIdle

TokenNext ==
    \/ TokenCall
    \/ TokenGet
    \/ TokenRaiseForStatus
    \/ TokenSearch
    \/ TokenExceptRequest
    \/ TokenExceptOther
    \/ TokenFinally
    \/ TokenCaller

\* up to MaxTokenCalls calls of extract_token on one store
TokenSpec == TokenInit /\ [][TokenNext]_vars

(* ========= CategoryScraper.extract_categories, both variants ========= *)
\* the entries of one answer: the i-th entry of page p is known by <<p, i>>
Entries_(tpl, p) == [i \in 1..Len(tpl) |-> [kind |-> tpl[i], id |-> <<p, i>>]]
\* REST pages: a full page of per_page entries, alone or with one entry without a
\* name, and shorter pages; "other_name" is an entry whose name is not in the
\* category_filter of the store
RestFull == [i \in 1..per_page |-> "ok"]
RestFullBad == [i \in 1..per_page |-> IF i = 2 THEN "no_name" ELSE "ok"]
RestPages == {<<>>, <<"ok">>, <<"ok", "ok">>, <<"no_name", "ok">>, <<"ok", "no_slug">>,
              <<"no_id", "ok">>, <<"other_name", "ok">>, RestFull, RestFullBad}
\* anchors of allcategory.html: without the h4, with an empty h4, without href, with
\* a href that does not end in /<slug>.html, or one whose parsing raises; "same_slug"
\* is a complete anchor whose href ends in the slug of the first anchor of the page
HtmlPages == {<<>>, <<"ok">>, <<"ok", "ok">>, <<"no_h4", "ok">>, <<"ok", "no_name">>,
              <<"no_href", "ok">>, <<"no_slug", "ok">>, <<"raises", "ok">>,
              <<"ok", "raises", "ok">>, <<"ok", "same_slug">>,
              <<"ok", "ok", "same_slug">>}
\* what a GET can meet: no answer, an error status, or a 200 answer with a page
CatAnswers(pages) ==
    {[status |-> 0, tpl |-> <<>>], [status |-> 500, tpl |-> <<>>]}
        \cup {[status |-> 200, tpl |-> tpl] : tpl \in pages}
\* the answer to the request of page p; past the last page the listing is empty
Served(p) ==
    IF p \in DOMAIN cat_site.pages THEN cat_site.pages[p]
    ELSE [status |-> 200, tpl |-> <<>>]

\* the ids of a sequence of entries
Ids(entries) == [i \in 1..Len(entries) |-> entries[i].id]

\* woocommerce lines 52-66: the for loop over the entries of one answer. An entry
\* without name raises KeyError at line 53, one without id or slug at lines 62-64
\* unless the filter skipped it at line 57; the entries before the first one that
\* raises are appended, those the filter does not know are skipped
RestLoop(json, category_filter, acc) ==
    LET skipped(cat) == category_filter /\ cat.kind = "other_name"
        raises(cat) == cat.kind \in {"no_name", "no_id", "no_slug"}
        stop == {i \in 1..Len(json) : raises(json[i])}
        last == IF stop = {} THEN Len(json)
                ELSE (CHOOSE i \in stop : \A j \in stop : i <= j) - 1
        done == SelectSeq(SubSeq(json, 1, last), LAMBDA cat : ~skipped(cat))
    IN [categories |-> acc \o Ids(done), raised |-> stop # {}]

\* category_scraper lines 55-87: the for loop over the anchors; an anchor without
\* h4, name, url or slug is not appended, an exception is logged and the loop goes on
HtmlLoop(category_elements, acc) ==
    acc \o Ids(SelectSeq(category_elements,
                         LAMBDA element : element.kind \in {"ok", "same_slug"}))

\* lines 23-35 (woocommerce) and 31-35 (html): the locals of the call
CatCall ==
    /\ cat_pc = "idle"
    /\ cat_pc' = "request"
    /\ cat_page' = 1
    /\ cat_list' = <<>>
    /\ UNCHANGED <<cat_kind, cat_site, cat_reqs, cat_slept>>
    /\ UNCHANGED <<run_vars, dbm_vars, tok_vars, det_vars>>

\* woocommerce lines 39-47: GET .../products/categories?page=&per_page=
RestRequest ==
    /\ cat_kind = "rest"
    /\ cat_pc = "request"
    /\ cat_reqs' = Append(cat_reqs, [page |-> cat_page, per_page |-> per_page])
    /\ cat_pc' = IF Served(cat_page).status = 200 THEN "data" ELSE "except"
    /\ UNCHANGED <<cat_kind, cat_site, cat_page, cat_list, cat_slept>>
    /\ UNCHANGED <<run_vars, dbm_vars, tok_vars, det_vars>>

\* woocommerce lines 47-72: an empty page breaks; else the entries are appended,
\* a short page breaks, and a full page is followed by page += 1 and the delay
RestPage ==
    /\ cat_kind = "rest"
    /\ cat_pc = "data"
    /\ LET json == Entries_(Served(cat_page).tpl, cat_page)
           loop == RestLoop(json, cat_site.category_filter, cat_list)
       IN /\ cat_list' = loop.categories
          /\ IF loop.raised
             THEN /\ cat_pc' = "except"
                  /\ UNCHANGED <<cat_page, cat_slept>>
             ELSE IF Len(json) < per_page
             THEN /\ cat_pc' = "done"
                  /\ UNCHANGED <<cat_page, cat_slept>>
             ELSE /\ cat_pc' = "request"
                  /\ cat_page' = cat_page + 1
                  /\ cat_slept' = Append(cat_slept, "REQUEST_DELAY")
    /\ UNCHANGED <<cat_kind, cat_site, cat_reqs>>
    /\ UNCHANGED <<run_vars, dbm_vars, tok_vars, det_vars>>

\* woocommerce lines 76-81: both handlers log, then return categories
RestExcept ==
    /\ cat_kind = "rest"
    /\ cat_pc = "except"
    /\ cat_pc' = "done"
    /\ UNCHANGED <<cat_kind, cat_site, cat_page, cat_list, cat_reqs, cat_slept>>
    /\ UNCHANGED <<run_vars, dbm_vars, tok_vars, det_vars>>

\* category_scraper lines 39-47: GET <base_url>/allcategory.html
HtmlRequest ==
    /\ cat_kind = "html"
    /\ cat_pc = "request"
    /\ cat_reqs' = Append(cat_reqs, [page |-> "allcategory.html", per_page |-> 0])
    /\ cat_pc' = IF Served(cat_page).status = 200 THEN "data" ELSE "except"
    /\ UNCHANGED <<cat_kind, cat_site, cat_page, cat_list, cat_slept>>
    /\ UNCHANGED <<run_vars, dbm_vars, tok_vars, det_vars>>

\* category_scraper lines 50-89: the anchors are parsed one by one
HtmlParse ==
    /\ cat_kind = "html"
    /\ cat_pc = "data"
    /\ cat_list' = HtmlLoop(Entries_(Served(cat_page).tpl, cat_page), cat_list)
    /\ cat_pc' = "finally"
    /\ UNCHANGED <<cat_kind, cat_site, cat_page, cat_reqs, cat_slept>>
    /\ UNCHANGED <<run_vars, dbm_vars, tok_vars, det_vars>>

\* category_scraper lines 91-94: both handlers log
HtmlExcept ==
    /\ cat_kind = "html"
    /\ cat_pc = "except"
    /\ cat_pc' = "finally"
    /\ UNCHANGED <<cat_kind, cat_site, cat_page, cat_list, cat_reqs, cat_slept>>
    /\ UNCHANGED <<run_vars, dbm_vars, tok_vars, det_vars>>

\* category_scraper lines 95-99: the delay, then return categories
HtmlFinally ==
    /\ cat_kind = "html"
    /\ cat_pc = "finally"
    /\ cat_slept' = Append(cat_slept, "REQUEST_DELAY")
    /\ cat_pc' = "done"
    /\ UNCHANGED <<cat_kind, cat_site, cat_page, cat_list, cat_reqs>>
    /\ UNCHANGED <<run_vars, dbm_vars, tok_vars, det_vars>>

\* category_scraper lines 68, 100-118: the slugs of the anchors of the page are
\* numbered, the i-th anchor having the slug i unless it repeats the slug of the first
category_slug(id) ==
    IF Served(id[1]).tpl[id[2]] = "same_slug" THEN 1 ELSE id[2]
RECURSIVE InsertIgnore(_, _)
\* database_service.py lines 107-111: INSERT IGNORE INTO categories of these rows, one
\* after the other; a row whose (store_id, category_slug) the table already has is
\* skipped. A row of the table is known by <<store_id, slug>>
InsertIgnore(table, rows) ==
    IF rows = <<>> THEN table
    ELSE InsertIgnore(IF \E k \in 1..Len(table) : table[k] = Head(rows) THEN table
                      ELSE Append(table, Head(rows)),
                      Tail(rows))
\* routes.py lines 69-72, database_service.py lines 94-134: fetch_and_store_categories
\* gives the list of the HTML variant to bulk_insert_categories unless it is empty;
\* when execute_many raises, the error is logged, 0 is returned and the table stays
\* as it was
StoreCategories ==
    /\ cat_kind = "html"
    /\ cat_pc = "done"
    /\ cat_pc' = "stored"
    /\ \E inserted \in BOOLEAN :
          db_categories' =
              IF cat_list = <<>> \/ ~inserted THEN db_categories
              ELSE [db_categories EXCEPT ![1] =
                       InsertIgnore(@, [k \in 1..Len(cat_list) |->
                                           <<1, category_slug(cat_list[k])>>])]
    /\ UNCHANGED <<cat_kind, cat_site, cat_page, cat_list, cat_reqs, cat_slept>>
    /\ UNCHANGED <<site_pages, db_stores, db_products, orch_vars, worker_vars, extract_vars>>
    /\ UNCHANGED <<dbm_vars, tok_vars, det_vars>>

\* one store and one extract_categories call: the HTML variant on one listing
\* page, or the REST variant on MaxCatPages answers, with or without a filter; the
\* categories table of the store is empty or has the row of the slug 1
CatInit ==
    /\ InitRun({1}, 1, {<<>>})
    /\ db_stores[1].base_url # None
    /\ DbIdle
    /\ TokenIdle
    /\ DetailsStart(None)
    /\ \/ \E a \in CatAnswers(HtmlPages) :
             CategoriesStart("html", [category_filter |-> FALSE, pages |-> <<a>>])
       \/ \E f \in BOOLEAN : \E site \in [1..MaxCatPages -> CatAnswers(RestPages)] :
             CategoriesStart("rest", [category_filter |-> f, pages |-> site])

CatNext ==
    \/ CatCall
    \/ RestRequest
    \/ RestPage
    \/ RestExcept
    \/ HtmlRequest
    \/ HtmlParse
    \/ HtmlExcept
    \/ HtmlFinally
    \/ StoreCategories

\* one call of extract_categories, of either variant, and what
\* fetch_and_store_categories does with the list of the HTML variant
CatSpec == CatInit /\ [][CatNext]_vars

(* ======= ProductScraper._extract_product_details on one element ======= *)
\* texts are sequences of characters, and a character is its Unicode code point
\* the ASCII characters from the space (32) to the underscore (95)
AsciiFromSpace ==
    <<" ", "!", "\"", "#", "$", "%", "&", "'", "(", ")", "*", "+", ",", "-", ".", "/",
      "0", "1", "2", "3", "4", "5", "6", "7", "8", "9", ":", ";", "<", "=", ">", "?",
      "@", "A", "B", "C", "D", "E", "F", "G", "H", "I", "J", "K", "L", "M", "N", "O",
      "P", "Q", "R", "S", "T", "U", "V", "W", "X", "Y", "Z", "[", "\\", "]", "^", "_">>
\* the ASCII characters from the small a (97) to the tilde (126)
AsciiFromSmallA ==
    <<"a", "b", "c", "d", "e", "f", "g", "h", "i", "j", "k", "l", "m", "n", "o", "p",
      "q", "r", "s", "t", "u", "v", "w", "x", "y", "z", "{", "|", "}", "~">>
\* ord(c) of one of these characters
ord(c) ==
    IF \E k \in 1..Len(AsciiFromSpace) : AsciiFromSpace[k] = c
    THEN 31 + CHOOSE k \in 1..Len(AsciiFromSpace) : AsciiFromSpace[k] = c
    ELSE 96 + CHOOSE k \in 1..Len(AsciiFromSmallA) : AsciiFromSmallA[k] = c
\* the text of a string literal, given character by character
Text(chars) == [i \in 1..Len(chars) |-> ord(chars[i])]
\* whether c lies in one of the ranges <<first, last>>
InRanges(c, ranges) == \E k \in 1..Len(ranges) : ranges[k][1] <= c /\ c <= ranges[k][2]

\* the character tables are those of Unicode 15.1
\* str.lower, one character to one character: <<first, last, step, delta>> stands for
\* the characters first, first + step, ..., last, each of which maps to itself + delta
LowerRanges ==
    <<<<65, 90, 1, 32>>, <<192, 214, 1, 32>>, <<216, 222, 1, 32>>,
      <<256, 302, 2, 1>>, <<306, 310, 2, 1>>, <<313, 327, 2, 1>>,
      <<330, 374, 2, 1>>, <<376, 376, 1, -121>>, <<377, 381, 2, 1>>,
      <<385, 385, 1, 210>>, <<386, 388, 2, 1>>, <<390, 390, 1, 206>>,
      <<391, 391, 1, 1>>, <<393, 394, 1, 205>>, <<395, 395, 1, 1>>,
      <<398, 398, 1, 79>>, <<399, 399, 1, 202>>, <<400, 400, 1, 203>>,
      <<401, 401, 1, 1>>, <<403, 403, 1, 205>>, <<404, 404, 1, 207>>,
      <<406, 406, 1, 211>>, <<407, 407, 1, 209>>, <<408, 408, 1, 1>>,
      <<412, 412, 1, 211>>, <<413, 413, 1, 213>>, <<415, 415, 1, 214>>,
      <<416, 420, 2, 1>>, <<422, 422, 1, 218>>, <<423, 423, 1, 1>>,
      <<425, 425, 1, 218>>, <<428, 428, 1, 1>>, <<430, 430, 1, 218>>,
      <<431, 431, 1, 1>>, <<433, 434, 1, 217>>, <<435, 437, 2, 1>>,
      <<439, 439, 1, 219>>, <<440, 440, 1, 1>>, <<444, 444, 1, 1>>,
      <<452, 452, 1, 2>>, <<453, 453, 1, 1>>, <<455, 455, 1, 2>>,
      <<456, 456, 1, 1>>, <<458, 458, 1, 2>>, <<459, 475, 2, 1>>,
      <<478, 494, 2, 1>>, <<497, 497, 1, 2>>, <<498, 500, 2, 1>>,
      <<502, 502, 1, -97>>, <<503, 503, 1, -56>>, <<504, 542, 2, 1>>,
      <<544, 544, 1, -130>>, <<546, 562, 2, 1>>, <<570, 570, 1, 10795>>,
      <<571, 571, 1, 1>>, <<573, 573, 1, -163>>, <<574, 574, 1, 10792>>,
      <<577, 577, 1, 1>>, <<579, 579, 1, -195>>, <<580, 580, 1, 69>>,
      <<581, 581, 1, 71>>, <<582, 590, 2, 1>>, <<880, 882, 2, 1>>,
      <<886, 886, 1, 1>>, <<895, 895, 1, 116>>, <<902, 902, 1, 38>>,
      <<904, 906, 1, 37>>, <<908, 908, 1, 64>>, <<910, 911, 1, 63>>,
      <<913, 929, 1, 32>>, <<931, 939, 1, 32>>, <<975, 975, 1, 8>>,
      <<984, 1006, 2, 1>>, <<1012, 1012, 1, -60>>, <<1015, 1015, 1, 1>>,
      <<1017, 1017, 1, -7>>, <<1018, 1018, 1, 1>>, <<1021, 1023, 1, -130>>,
      <<1024, 1039, 1, 80>>, <<1040, 1071, 1, 32>>, <<1120, 1152, 2, 1>>,
      <<1162, 1214, 2, 1>>, <<1216, 1216, 1, 15>>, <<1217, 1229, 2, 1>>,
      <<1232, 1326, 2, 1>>, <<1329, 1366, 1, 48>>, <<4256, 4293, 1, 7264>>,
      <<4295, 4295, 1, 7264>>, <<4301, 4301, 1, 7264>>, <<5024, 5103, 1, 38864>>,
      <<5104, 5109, 1, 8>>, <<7312, 7354, 1, -3008>>, <<7357, 7359, 1, -3008>>,
      <<7680, 7828, 2, 1>>, <<7838, 7838, 1, -7615>>, <<7840, 7934, 2, 1>>,
      <<7944, 7951, 1, -8>>, <<7960, 7965, 1, -8>>, <<7976, 7983, 1, -8>>,
      <<7992, 7999, 1, -8>>, <<8008, 8013, 1, -8>>, <<8025, 8031, 2, -8>>,
      <<8040, 8047, 1, -8>>, <<8072, 8079, 1, -8>>, <<8088, 8095, 1, -8>>,
      <<8104, 8111, 1, -8>>, <<8120, 8121, 1, -8>>, <<8122, 8123, 1, -74>>,
      <<8124, 8124, 1, -9>>, <<8136, 8139, 1, -86>>, <<8140, 8140, 1, -9>>,
      <<8152, 8153, 1, -8>>, <<8154, 8155, 1, -100>>, <<8168, 8169, 1, -8>>,
      <<8170, 8171, 1, -112>>, <<8172, 8172, 1, -7>>, <<8184, 8185, 1, -128>>,
      <<8186, 8187, 1, -126>>, <<8188, 8188, 1, -9>>, <<8486, 8486, 1, -7517>>,
      <<8490, 8490, 1, -8383>>, <<8491, 8491, 1, -8262>>, <<8498, 8498, 1, 28>>,
      <<8544, 8559, 1, 16>>, <<8579, 8579, 1, 1>>, <<9398, 9423, 1, 26>>,
      <<11264, 11311, 1, 48>>, <<11360, 11360, 1, 1>>, <<11362, 11362, 1, -10743>>,
      <<11363, 11363, 1, -3814>>, <<11364, 11364, 1, -10727>>, <<11367, 11371, 2, 1>>,
      <<11373, 11373, 1, -10780>>, <<11374, 11374, 1, -10749>>, <<11375, 11375, 1, -10783>>,
      <<11376, 11376, 1, -10782>>, <<11378, 11378, 1, 1>>, <<11381, 11381, 1, 1>>,
      <<11390, 11391, 1, -10815>>, <<11392, 11490, 2, 1>>, <<11499, 11501, 2, 1>>,
      <<11506, 11506, 1, 1>>, <<42560, 42604, 2, 1>>, <<42624, 42650, 2, 1>>,
      <<42786, 42798, 2, 1>>, <<42802, 42862, 2, 1>>, <<42873, 42875, 2, 1>>,
      <<42877, 42877, 1, -35332>>, <<42878, 42886, 2, 1>>, <<42891, 42891, 1, 1>>,
      <<42893, 42893, 1, -42280>>, <<42896, 42898, 2, 1>>, <<42902, 42920, 2, 1>>,
      <<42922, 42922, 1, -42308>>, <<42923, 42923, 1, -42319>>, <<42924, 42924, 1, -42315>>,
      <<42925, 42925, 1, -42305>>, <<42926, 42926, 1, -42308>>, <<42928, 42928, 1, -42258>>,
      <<42929, 42929, 1, -42282>>, <<42930, 42930, 1, -42261>>, <<42931, 42931, 1, 928>>,
      <<42932, 42946, 2, 1>>, <<42948, 42948, 1, -48>>, <<42949, 42949, 1, -42307>>,
      <<42950, 42950, 1, -35384>>, <<42951, 42953, 2, 1>>, <<42960, 42960, 1, 1>>,
      <<42966, 42968, 2, 1>>, <<42997, 42997, 1, 1>>, <<65313, 65338, 1, 32>>,
      <<66560, 66599, 1, 40>>, <<66736, 66771, 1, 40>>, <<66928, 66938, 1, 39>>,
      <<66940, 66954, 1, 39>>, <<66956, 66962, 1, 39>>, <<66964, 66965, 1, 39>>,
      <<68736, 68786, 1, 64>>, <<71840, 71871, 1, 32>>, <<93760, 93791, 1, 32>>,
      <<125184, 125217, 1, 34>>>>
\* the characters str.lower skips when it looks for the neighbours of a capital
\* sigma (case-ignorable), as ranges
CaseIgnorable ==
    <<<<39, 39>>, <<46, 46>>, <<58, 58>>, <<94, 94>>, <<96, 96>>,
      <<168, 168>>, <<173, 173>>, <<175, 175>>, <<180, 180>>, <<183, 184>>,
      <<688, 879>>, <<884, 885>>, <<890, 890>>, <<900, 901>>, <<903, 903>>,
      <<1155, 1161>>, <<1369, 1369>>, <<1375, 1375>>, <<1425, 1469>>, <<1471, 1471>>,
      <<1473, 1474>>, <<1476, 1477>>, <<1479, 1479>>, <<1524, 1524>>, <<1536, 1541>>,
      <<1552, 1562>>, <<1564, 1564>>, <<1600, 1600>>, <<1611, 1631>>, <<1648, 1648>>,
      <<1750, 1757>>, <<1759, 1768>>, <<1770, 1773>>, <<1807, 1807>>, <<1809, 1809>>,
      <<1840, 1866>>, <<1958, 1968>>, <<2027, 2037>>, <<2042, 2042>>, <<2045, 2045>>,
      <<2070, 2093>>, <<2137, 2139>>, <<2184, 2184>>, <<2192, 2193>>, <<2200, 2207>>,
      <<2249, 2306>>, <<2362, 2362>>, <<2364, 2364>>, <<2369, 2376>>, <<2381, 2381>>,
      <<2385, 2391>>, <<2402, 2403>>, <<2417, 2417>>, <<2433, 2433>>, <<2492, 2492>>,
      <<2497, 2500>>, <<2509, 2509>>, <<2530, 2531>>, <<2558, 2558>>, <<2561, 2562>>,
      <<2620, 2620>>, <<2625, 2626>>, <<2631, 2632>>, <<2635, 2637>>, <<2641, 2641>>,
      <<2672, 2673>>, <<2677, 2677>>, <<2689, 2690>>, <<2748, 2748>>, <<2753, 2757>>,
      <<2759, 2760>>, <<2765, 2765>>, <<2786, 2787>>, <<2810, 2815>>, <<2817, 2817>>,
      <<2876, 2876>>, <<2879, 2879>>, <<2881, 2884>>, <<2893, 2893>>, <<2901, 2902>>,
      <<2914, 2915>>, <<2946, 2946>>, <<3008, 3008>>, <<3021, 3021>>, <<3072, 3072>>,
      <<3076, 3076>>, <<3132, 3132>>, <<3134, 3136>>, <<3142, 3144>>, <<3146, 3149>>,
      <<3157, 3158>>, <<3170, 3171>>, <<3201, 3201>>, <<3260, 3260>>, <<3263, 3263>>,
      <<3270, 3270>>, <<3276, 3277>>, <<3298, 3299>>, <<3328, 3329>>, <<3387, 3388>>,
      <<3393, 3396>>, <<3405, 3405>>, <<3426, 3427>>, <<3457, 3457>>, <<3530, 3530>>,
      <<3538, 3540>>, <<3542, 3542>>, <<3633, 3633>>, <<3636, 3642>>, <<3654, 3662>>,
      <<3761, 3761>>, <<3764, 3772>>, <<3782, 3782>>, <<3784, 3790>>, <<3864, 3865>>,
      <<3893, 3893>>, <<3895, 3895>>, <<3897, 3897>>, <<3953, 3966>>, <<3968, 3972>>,
      <<3974, 3975>>, <<3981, 3991>>, <<3993, 4028>>, <<4038, 4038>>, <<4141, 4144>>,
      <<4146, 4151>>, <<4153, 4154>>, <<4157, 4158>>, <<4184, 4185>>, <<4190, 4192>>,
      <<4209, 4212>>, <<4226, 4226>>, <<4229, 4230>>, <<4237, 4237>>, <<4253, 4253>>,
      <<4348, 4348>>, <<4957, 4959>>, <<5906, 5908>>, <<5938, 5939>>, <<5970, 5971>>,
      <<6002, 6003>>, <<6068, 6069>>, <<6071, 6077>>, <<6086, 6086>>, <<6089, 6099>>,
      <<6103, 6103>>, <<6109, 6109>>, <<6155, 6159>>, <<6211, 6211>>, <<6277, 6278>>,
      <<6313, 6313>>, <<6432, 6434>>, <<6439, 6440>>, <<6450, 6450>>, <<6457, 6459>>,
      <<6679, 6680>>, <<6683, 6683>>, <<6742, 6742>>, <<6744, 6750>>, <<6752, 6752>>,
      <<6754, 6754>>, <<6757, 6764>>, <<6771, 6780>>, <<6783, 6783>>, <<6823, 6823>>,
      <<6832, 6862>>, <<6912, 6915>>, <<6964, 6964>>, <<6966, 6970>>, <<6972, 6972>>,
      <<6978, 6978>>, <<7019, 7027>>, <<7040, 7041>>, <<7074, 7077>>, <<7080, 7081>>,
      <<7083, 7085>>, <<7142, 7142>>, <<7144, 7145>>, <<7149, 7149>>, <<7151, 7153>>,
      <<7212, 7219>>, <<7222, 7223>>, <<7288, 7293>>, <<7376, 7378>>, <<7380, 7392>>,
      <<7394, 7400>>, <<7405, 7405>>, <<7412, 7412>>, <<7416, 7417>>, <<7468, 7530>>,
      <<7544, 7544>>, <<7579, 7679>>, <<8125, 8125>>, <<8127, 8129>>, <<8141, 8143>>,
      <<8157, 8159>>, <<8173, 8175>>, <<8189, 8190>>, <<8203, 8207>>, <<8216, 8217>>,
      <<8228, 8228>>, <<8231, 8231>>, <<8234, 8238>>, <<8288, 8292>>, <<8294, 8303>>,
      <<8305, 8305>>, <<8319, 8319>>, <<8336, 8348>>, <<8400, 8432>>, <<11388, 11389>>,
      <<11503, 11505>>, <<11631, 11631>>, <<11647, 11647>>, <<11744, 11775>>, <<11823, 11823>>,
      <<12293, 12293>>, <<12330, 12333>>, <<12337, 12341>>, <<12347, 12347>>, <<12441, 12446>>,
      <<12540, 12542>>, <<40981, 40981>>, <<42232, 42237>>, <<42508, 42508>>, <<42607, 42610>>,
      <<42612, 42621>>, <<42623, 42623>>, <<42652, 42655>>, <<42736, 42737>>, <<42752, 42785>>,
      <<42864, 42864>>, <<42888, 42890>>, <<42994, 42996>>, <<43000, 43001>>, <<43010, 43010>>,
      <<43014, 43014>>, <<43019, 43019>>, <<43045, 43046>>, <<43052, 43052>>, <<43204, 43205>>,
      <<43232, 43249>>, <<43263, 43263>>, <<43302, 43309>>, <<43335, 43345>>, <<43392, 43394>>,
      <<43443, 43443>>, <<43446, 43449>>, <<43452, 43453>>, <<43471, 43471>>, <<43493, 43494>>,
      <<43561, 43566>>, <<43569, 43570>>, <<43573, 43574>>, <<43587, 43587>>, <<43596, 43596>>,
      <<43632, 43632>>, <<43644, 43644>>, <<43696, 43696>>, <<43698, 43700>>, <<43703, 43704>>,
      <<43710, 43711>>, <<43713, 43713>>, <<43741, 43741>>, <<43756, 43757>>, <<43763, 43764>>,
      <<43766, 43766>>, <<43867, 43871>>, <<43881, 43883>>, <<44005, 44005>>, <<44008, 44008>>,
      <<44013, 44013>>, <<64286, 64286>>, <<64434, 64450>>, <<65024, 65039>>, <<65043, 65043>>,
      <<65056, 65071>>, <<65106, 65106>>, <<65109, 65109>>, <<65279, 65279>>, <<65287, 65287>>,
      <<65294, 65294>>, <<65306, 65306>>, <<65342, 65342>>, <<65344, 65344>>, <<65392, 65392>>,
      <<65438, 65439>>, <<65507, 65507>>, <<65529, 65531>>, <<66045, 66045>>, <<66272, 66272>>,
      <<66422, 66426>>, <<67456, 67461>>, <<67463, 67504>>, <<67506, 67514>>, <<68097, 68099>>,
      <<68101, 68102>>, <<68108, 68111>>, <<68152, 68154>>, <<68159, 68159>>, <<68325, 68326>>,
      <<68900, 68903>>, <<69291, 69292>>, <<69373, 69375>>, <<69446, 69456>>, <<69506, 69509>>,
      <<69633, 69633>>, <<69688, 69702>>, <<69744, 69744>>, <<69747, 69748>>, <<69759, 69761>>,
      <<69811, 69814>>, <<69817, 69818>>, <<69821, 69821>>, <<69826, 69826>>, <<69837, 69837>>,
      <<69888, 69890>>, <<69927, 69931>>, <<69933, 69940>>, <<70003, 70003>>, <<70016, 70017>>,
      <<70070, 70078>>, <<70089, 70092>>, <<70095, 70095>>, <<70191, 70193>>, <<70196, 70196>>,
      <<70198, 70199>>, <<70206, 70206>>, <<70209, 70209>>, <<70367, 70367>>, <<70371, 70378>>,
      <<70400, 70401>>, <<70459, 70460>>, <<70464, 70464>>, <<70502, 70508>>, <<70512, 70516>>,
      <<70712, 70719>>, <<70722, 70724>>, <<70726, 70726>>, <<70750, 70750>>, <<70835, 70840>>,
      <<70842, 70842>>, <<70847, 70848>>, <<70850, 70851>>, <<71090, 71093>>, <<71100, 71101>>,
      <<71103, 71104>>, <<71132, 71133>>, <<71219, 71226>>, <<71229, 71229>>, <<71231, 71232>>,
      <<71339, 71339>>, <<71341, 71341>>, <<71344, 71349>>, <<71351, 71351>>, <<71453, 71455>>,
      <<71458, 71461>>, <<71463, 71467>>, <<71727, 71735>>, <<71737, 71738>>, <<71995, 71996>>,
      <<71998, 71998>>, <<72003, 72003>>, <<72148, 72151>>, <<72154, 72155>>, <<72160, 72160>>,
      <<72193, 72202>>, <<72243, 72248>>, <<72251, 72254>>, <<72263, 72263>>, <<72273, 72278>>,
      <<72281, 72283>>, <<72330, 72342>>, <<72344, 72345>>, <<72752, 72758>>, <<72760, 72765>>,
      <<72767, 72767>>, <<72850, 72871>>, <<72874, 72880>>, <<72882, 72883>>, <<72885, 72886>>,
      <<73009, 73014>>, <<73018, 73018>>, <<73020, 73021>>, <<73023, 73029>>, <<73031, 73031>>,
      <<73104, 73105>>, <<73109, 73109>>, <<73111, 73111>>, <<73459, 73460>>, <<73472, 73473>>,
      <<73526, 73530>>, <<73536, 73536>>, <<73538, 73538>>, <<78896, 78912>>, <<78919, 78933>>,
      <<92912, 92916>>, <<92976, 92982>>, <<92992, 92995>>, <<94031, 94031>>, <<94095, 94111>>,
      <<94176, 94177>>, <<94179, 94180>>, <<110576, 110579>>, <<110581, 110587>>, <<110589, 110590>>,
      <<113821, 113822>>, <<113824, 113827>>, <<118528, 118573>>, <<118576, 118598>>, <<119143, 119145>>,
      <<119155, 119170>>, <<119173, 119179>>, <<119210, 119213>>, <<119362, 119364>>, <<121344, 121398>>,
      <<121403, 121452>>, <<121461, 121461>>, <<121476, 121476>>, <<121499, 121503>>, <<121505, 121519>>,
      <<122880, 122886>>, <<122888, 122904>>, <<122907, 122913>>, <<122915, 122916>>, <<122918, 122922>>,
      <<122928, 122989>>, <<123023, 123023>>, <<123184, 123197>>, <<123566, 123566>>, <<123628, 123631>>,
      <<124139, 124143>>, <<125136, 125142>>, <<125252, 125259>>, <<127995, 127999>>, <<917505, 917505>>,
      <<917536, 917631>>, <<917760, 917999>>>>
\* the cased characters that are not case-ignorable, as ranges
Cased ==
    <<<<65, 90>>, <<97, 122>>, <<170, 170>>, <<181, 181>>, <<186, 186>>,
      <<192, 214>>, <<216, 246>>, <<248, 442>>, <<444, 447>>, <<452, 659>>,
      <<661, 687>>, <<880, 883>>, <<886, 887>>, <<891, 893>>, <<895, 895>>,
      <<902, 902>>, <<904, 906>>, <<908, 908>>, <<910, 929>>, <<931, 1013>>,
      <<1015, 1153>>, <<1162, 1327>>, <<1329, 1366>>, <<1376, 1416>>, <<4256, 4293>>,
      <<4295, 4295>>, <<4301, 4301>>, <<4304, 4346>>, <<4349, 4351>>, <<5024, 5109>>,
      <<5112, 5117>>, <<7296, 7304>>, <<7312, 7354>>, <<7357, 7359>>, <<7424, 7467>>,
      <<7531, 7543>>, <<7545, 7578>>, <<7680, 7957>>, <<7960, 7965>>, <<7968, 8005>>,
      <<8008, 8013>>, <<8016, 8023>>, <<8025, 8025>>, <<8027, 8027>>, <<8029, 8029>>,
      <<8031, 8061>>, <<8064, 8116>>, <<8118, 8124>>, <<8126, 8126>>, <<8130, 8132>>,
      <<8134, 8140>>, <<8144, 8147>>, <<8150, 8155>>, <<8160, 8172>>, <<8178, 8180>>,
      <<8182, 8188>>, <<8450, 8450>>, <<8455, 8455>>, <<8458, 8467>>, <<8469, 8469>>,
      <<8473, 8477>>, <<8484, 8484>>, <<8486, 8486>>, <<8488, 8488>>, <<8490, 8493>>,
      <<8495, 8500>>, <<8505, 8505>>, <<8508, 8511>>, <<8517, 8521>>, <<8526, 8526>>,
      <<8544, 8575>>, <<8579, 8580>>, <<9398, 9449>>, <<11264, 11387>>, <<11390, 11492>>,
      <<11499, 11502>>, <<11506, 11507>>, <<11520, 11557>>, <<11559, 11559>>, <<11565, 11565>>,
      <<42560, 42605>>, <<42624, 42651>>, <<42786, 42863>>, <<42865, 42887>>, <<42891, 42894>>,
      <<42896, 42954>>, <<42960, 42961>>, <<42963, 42963>>, <<42965, 42969>>, <<42997, 42998>>,
      <<43002, 43002>>, <<43824, 43866>>, <<43872, 43880>>, <<43888, 43967>>, <<64256, 64262>>,
      <<64275, 64279>>, <<65313, 65338>>, <<65345, 65370>>, <<66560, 66639>>, <<66736, 66771>>,
      <<66776, 66811>>, <<66928, 66938>>, <<66940, 66954>>, <<66956, 66962>>, <<66964, 66965>>,
      <<66967, 66977>>, <<66979, 66993>>, <<66995, 67001>>, <<67003, 67004>>, <<68736, 68786>>,
      <<68800, 68850>>, <<71840, 71903>>, <<93760, 93823>>, <<119808, 119892>>, <<119894, 119964>>,
      <<119966, 119967>>, <<119970, 119970>>, <<119973, 119974>>, <<119977, 119980>>, <<119982, 119993>>,
      <<119995, 119995>>, <<119997, 120003>>, <<120005, 120069>>, <<120071, 120074>>, <<120077, 120084>>,
      <<120086, 120092>>, <<120094, 120121>>, <<120123, 120126>>, <<120128, 120132>>, <<120134, 120134>>,
      <<120138, 120144>>, <<120146, 120485>>, <<120488, 120512>>, <<120514, 120538>>, <<120540, 120570>>,
      <<120572, 120596>>, <<120598, 120628>>, <<120630, 120654>>, <<120656, 120686>>, <<120688, 120712>>,
      <<120714, 120744>>, <<120746, 120770>>, <<120772, 120779>>, <<122624, 122633>>, <<122635, 122654>>,
      <<122661, 122666>>, <<125184, 125251>>, <<127280, 127305>>, <<127312, 127337>>, <<127344, 127369>>>>
\* the lowercase of one character other than U+0130 and the capital sigma
lower_char(c) ==
    IF \E k \in 1..Len(LowerRanges) :
          LET r == LowerRanges[k] IN r[1] <= c /\ c <= r[2] /\ (c - r[1]) % r[3] = 0
    THEN LET k == CHOOSE k \in 1..Len(LowerRanges) :
                    LET r == LowerRanges[k]
                    IN r[1] <= c /\ c <= r[2] /\ (c - r[1]) % r[3] = 0
         IN c + LowerRanges[k][4]
    ELSE c
\* the capital sigma at position i ends a word: the nearest character before it
\* that is not case-ignorable is cased, and the nearest such character after it,
\* if there is one, is not
final_sigma(text, i) ==
    LET before == {j \in 1..(i - 1) : ~InRanges(text[j], CaseIgnorable)}
        after == {j \in (i + 1)..Len(text) : ~InRanges(text[j], CaseIgnorable)}
    IN /\ before # {}
       /\ InRanges(text[CHOOSE j \in before : \A k \in before : k <= j], Cased)
       /\ \/ after = {}
          \/ ~InRanges(text[CHOOSE j \in after : \A k \in after : j <= k], Cased)
RECURSIVE lower_from(_, _)
\* the lowercase of the characters of text from position i on: U+0130 (304) gives
\* i and the combining dot (105, 775), the capital sigma (931) the final (962) or
\* the small sigma (963)
lower_from(text, i) ==
    IF i > Len(text) THEN <<>>
    ELSE (IF text[i] = 304 THEN <<105, 775>>
          ELSE IF text[i] = 931 THEN <<IF final_sigma(text, i) THEN 962 ELSE 963>>
          ELSE <<lower_char(text[i])>>) \o lower_from(text, i + 1)
\* str.lower: every cased character is replaced by its lowercase
lower(text) == lower_from(text, 1)
\* the characters str.strip removes: those for which str.isspace holds
Whitespace ==
    (9..13) \cup (28..32) \cup {133, 160, 5760} \cup (8192..8202)
        \cup {8232, 8233, 8239, 8287, 12288}
\* get_text(strip=True) of a tag with one string: surrounding whitespace removed
strip(text) ==
    LET inked == {i \in 1..Len(text) : text[i] \notin Whitespace} IN
    IF inked = {} THEN <<>>
    ELSE SubSeq(text, CHOOSE i \in inked : \A j \in inked : i <= j,
                      CHOOSE i \in inked : \A j \in inked : j <= i)
\* the literal "sold out" of line 192
SoldOut == Text(<<"s", "o", "l", "d", " ", "o", "u", "t">>)
\* what the button of a product card can read in the page source; 9 is the tab, 10
\* the newline, 133 the next line, 160 the no-break space, 201 E acute, 383 the
\* long s, 8195 the em space
ButtonTexts ==
    {Text(<<"S", "o", "l", "d", " ", "O", "u", "t">>),
     Text(<<"S", "O", "L", "D", " ", "O", "U", "T">>),
     Text(<<"s", "o", "l", "d", " ", "o", "u", "t">>),
     Text(<<"s", "O", "L", "D", " ", "o", "U", "T">>),
     Text(<<" ", " ", "S", "o", "l", "d", " ", "O", "u", "t", " ">>),
     <<>>,
     Text(<<"A", "d", "d", " ", "t", "o", " ", "C", "a", "r", "t">>),
     Text(<<"S", "o", "l", "d">>),
     Text(<<"S", "o", "l", "d", " ", "O", "u", "t", "!">>),
     Text(<<"S", "o", "l", "d", "O", "u", "t">>),
     Text(<<"S", "o", "l", "d", " ", " ", "O", "u", "t">>),
     Text(<<"I", "n", " ", "S", "t", "o", "c", "k">>),
     Text(<<" ", " ">>),
     <<9>> \o Text(<<"S", "o", "l", "d", " ", "O", "u", "t">>),
     <<10, 32, 32>> \o Text(<<"S", "o", "l", "d", " ", "O", "u", "t">>) \o <<10, 32>>,
     Text(<<"S", "o", "l", "d">>) \o <<10>> \o Text(<<"O", "u", "t">>),
     Text(<<"S", "o", "l", "d", " ", "O", "u", "t">>) \o <<160>>,
     <<8195>> \o Text(<<"S", "O", "L", "D", " ", "O", "U", "T">>) \o <<133>>,
     Text(<<"S", "o", "l", "d">>) \o <<160>> \o Text(<<"O", "u", "t">>),
     <<201>> \o Text(<<"C", "L", "A", "I", "R">>),
     <<383>> \o Text(<<"o", "l", "d", " ", "o", "u", "t">>)}
\* the characters \d of the pattern of lines 209 and 215 matches are the decimal
\* digits of every script: ten consecutive characters from each of these zeros on
DigitZeros ==
    {48, 1632, 1776, 1984, 2406, 2534, 2662, 2790, 2918, 3046, 3174, 3302,
     3430, 3558, 3664, 3792, 3872, 4160, 4240, 6112, 6160, 6470, 6608, 6784,
     6800, 6992, 7088, 7232, 7248, 42528, 43216, 43264, 43472, 43504, 43600, 44016,
     65296, 66720, 68912, 69734, 69872, 69942, 70096, 70384, 70736, 70864, 71248, 71360,
     71472, 71904, 72016, 72784, 73040, 73120, 73552, 92768, 92864, 93008, 120782, 120792,
     120802, 120812, 120822, 123200, 123632, 124144, 125264, 130032}
\* whether c is a decimal digit
isdecimal(c) == \E z \in DigitZeros : z <= c /\ c <= z + 9
\* the digit value of a decimal digit
decimal(c) == c - (CHOOSE z \in DigitZeros : z <= c /\ c <= z + 9)
\* re.search(r"[\d,]+", price_text): the first longest run of digits and commas (44),
\* as <<run>>, or None when the text has neither
price_match(price_text) ==
    LET hit(i) == price_text[i] = 44 \/ isdecimal(price_text[i])
        hits == {i \in 1..Len(price_text) : hit(i)}
    IN IF hits = {} THEN None
       ELSE LET first == CHOOSE i \in hits : \A j \in hits : i <= j
                last == CHOOSE i \in first..Len(price_text) :
                            /\ \A j \in first..i : hit(j)
                            /\ i = Len(price_text) \/ ~hit(i + 1)
            IN <<SubSeq(price_text, first, last)>>
\* .replace(",", "")
without_commas(run) == SelectSeq(run, LAMBDA c : c # 44)
\* a run of commas only: float("") raises ValueError
ValueError(run) == without_commas(run) = <<>>
\* numbers are sequences of digit values without leading zeros, zero being <<0>>
number(digits) ==
    LET vals == [i \in 1..Len(digits) |-> decimal(digits[i])]
        nonzero == {i \in 1..Len(vals) : vals[i] # 0}
    IN IF nonzero = {} THEN <<0>>
       ELSE SubSeq(vals, CHOOSE i \in nonzero : \A j \in nonzero : i <= j, Len(vals))
\* the half of a number, rounded down
halve(n) ==
    LET q == [i \in 1..Len(n) |->
                 (10 * (IF i = 1 THEN 0 ELSE n[i - 1] % 2) + n[i]) \div 2]
    IN IF Len(q) > 1 /\ q[1] = 0 THEN Tail(q) ELSE q
\* the double of a number, plus bit
twice(n, bit) ==
    (IF n[1] >= 5 THEN <<1>> ELSE <<>>)
        \o [i \in 1..Len(n) |->
               ((2 * n[i]) % 10) + (IF i = Len(n) THEN bit
                                    ELSE IF n[i + 1] >= 5 THEN 1 ELSE 0)]
RECURSIVE bits(_)
\* the binary digits of a number, the highest first; none for zero
bits(n) == IF n = <<0>> THEN <<>> ELSE Append(bits(halve(n)), n[Len(n)] % 2)
RECURSIVE from_bits(_, _)
\* the number n followed by the binary digits b: n * 2^Len(b) + b
from_bits(n, b) ==
    IF n = <<0>> /\ b # <<>> THEN from_bits(<<Head(b)>>, Tail(b))
    ELSE IF b = <<>> THEN n
    ELSE from_bits(twice(n, Head(b)), Tail(b))
\* the binary digits b plus one
increment(b) ==
    LET zeros == {i \in 1..Len(b) : b[i] = 0}
    IN IF zeros = {} THEN <<1>> \o [i \in 1..Len(b) |-> 0]
       ELSE LET last == CHOOSE i \in zeros : \A j \in zeros : j <= i
            IN [i \in 1..Len(b) |-> IF i < last THEN b[i] ELSE IF i = last THEN 1 ELSE 0]
\* the double nearest to a number: its first 53 binary digits, rounded to even on
\* a tie, followed by zeros; inf beyond the largest double, which has 309 digits
nearest_double(n) ==
    LET b == bits(n)
        kept == SubSeq(b, 1, 53)
        rest == SubSeq(b, 54, Len(b))
        up == /\ rest[1] = 1
              /\ kept[53] = 1 \/ \E i \in 2..Len(rest) : rest[i] = 1
        rounded == (IF up THEN increment(kept) ELSE kept) \o [i \in 1..Len(rest) |-> 0]
    IN IF Len(n) > 309 THEN [inf |-> TRUE, digits |-> <<>>]
       ELSE IF Len(b) <= 53 THEN [inf |-> FALSE, digits |-> n]
       ELSE IF Len(rounded) > 1024 THEN [inf |-> TRUE, digits |-> <<>>]
       ELSE [inf |-> FALSE, digits |-> from_bits(<<0>>, rounded)]
\* float(price_match.group().replace(",", "")) of a run with a digit, as <<value>>
float(run) == <<nearest_double(number(without_commas(run)))>>
RECURSIVE prices(_, _, _)
\* lines 200-217: the loop over the h6 tags of the element, the name included; a text
\* without the class l-through sets current_price while it is None, a text with it
\* sets original_price; a conversion that raises ends the loop
prices(price_elements, current_price, original_price) ==
    IF price_elements = <<>>
    THEN [current_price |-> current_price, original_price |-> original_price,
          raised |-> FALSE]
    ELSE LET price_elem == Head(price_elements)
             match == price_match(strip(price_elem.text))
             convert == match # None /\ (price_elem.l_through \/ current_price = None)
         IN IF ~convert
            THEN prices(Tail(price_elements), current_price, original_price)
            ELSE IF ValueError(match[1])
            THEN [current_price |-> current_price, original_price |-> original_price,
                  raised |-> TRUE]
            ELSE IF price_elem.l_through
            THEN prices(Tail(price_elements), current_price, float(match[1]))
            ELSE prices(Tail(price_elements), float(match[1]), original_price)
\* an h6 tag: its text, and whether it has the class l-through
H6(text, l_through) == [text |-> text, l_through |-> l_through]
\* the h6 tags an element can have: the name first, then its prices; 1776 to 1785
\* are the extended Arabic-Indic digits
H6Lists ==
    {<<H6(Text(<<"T", "e", "e">>), FALSE)>>,
     <<H6(Text(<<"T", "e", "e">>), FALSE), H6(Text(<<"R", "s", " ", "1", ",", "2", "0", "0">>), FALSE)>>,
     <<H6(Text(<<"T", "e", "e">>), FALSE), H6(Text(<<"R", "s", " ", "9", "0", "0">>), FALSE),
       H6(<<160>> \o Text(<<"R", "s", " ", "1", ",", "5", "0", "0">>) \o <<10>>, TRUE)>>,
     <<H6(Text(<<"T", "e", "e", ",", " ", "L">>), FALSE), H6(Text(<<"R", "s", " ", "9", "0", "0">>), FALSE)>>,
     <<H6(Text(<<"T", "e", "e">>), FALSE), H6(Text(<<"R", "s", " ", ",">>), TRUE)>>,
     <<H6(Text(<<"T", "e", "e", " ", "2">>), FALSE), H6(Text(<<"R", "s", " ", "9", "0", "0">>), FALSE)>>,
     <<H6(Text(<<"T", "e", "e">>), FALSE), H6(Text(<<"R", "s", " ", "9", "0", "0">>), FALSE),
       H6(Text(<<"a", ",", "b">>), FALSE)>>,
     <<H6(Text(<<"T", "e", "e">>), FALSE),
       H6(Text(<<"R", "s", " ">>) \o <<1777, 44, 1778, 1776, 1776>>, FALSE)>>,
     <<H6(Text(<<"T", "e", "e">>), FALSE), H6(Text(<<"R", "s", " ", "0", ",", "0", "1", "2">>), FALSE),
       H6(Text(<<"9", "0", "0", "7", "1", "9", "9", "2", "5", "4", "7", "4", "0", "9", "9", "3">>), TRUE)>>}
\* the elements the details specification parses: a card with a button text and its
\* h6 tags, or an element without link (with h6 and button), without h6, or without
\* button
DetailElements ==
    [kind : {"card", "no_link"}, product_id : 1..NumProducts,
     button_text : ButtonTexts, h6 : H6Lists]
        \cup [kind : {"no_h6"}, product_id : 1..NumProducts, button_text : ButtonTexts,
               h6 : {<<>>}]
        \cup [kind : {"no_button"}, product_id : 1..NumProducts, button_text : {None},
               h6 : H6Lists]
\* the element as the page model has it: a complete element whose prices do not
\* convert is a bad_price fragment
Fragment(el) ==
    [kind |-> IF el.kind = "card" /\ prices(el.h6, None, None).raised THEN "bad_price"
              ELSE el.kind,
     product_id |-> el.product_id]

\* as stock_status, but the text is compared with "Sold Out" as it is written
stock_status_as_written(button_text) ==
    IF button_text = Text(<<"S", "o", "l", "d", " ", "O", "u", "t">>) THEN "out_of_stock"
    ELSE "in_stock"

\* lines 190-193: "out_of_stock" if button_text.lower() == "sold out" else "in_stock"
stock_status(button_text) ==
    IF lower(button_text) = SoldOut THEN "out_of_stock" ELSE "in_stock"

\* lines 167-185, 236-238: an element without link, h6 or button returns None, and
\* so does one whose price conversion raised
DetailsMissing ==
    /\ det_pc = "idle"
    /\ det_element # None
    /\ _extract_product_details(Fragment(det_element), 1, <<1, 1>>) = None
    /\ det_result' = None
    /\ det_pc' = "returned"
    /\ UNCHANGED det_element
    /\ UNCHANGED <<run_vars, dbm_vars, tok_vars, cat_vars>>

\* lines 187-234: the product of a complete element, with its stock status
DetailsReturn ==
    /\ det_pc = "idle"
    /\ det_element # None
    /\ LET base == _extract_product_details(Fragment(det_element), 1, <<1, 1>>)
           button_text == strip(det_element.button_text)
           price == prices(det_element.h6, None, None)
       IN /\ base # None
          /\ det_result' = <<[store_id |-> base[1].store_id,
                              category_id |-> base[1].category_id,
                              product_id |-> base[1].product_id,
                              current_price |-> price.current_price,
                              original_price |-> price.original_price,
                              stock_status |-> stock_status(button_text)]>>
    /\ det_pc' = "returned"
    /\ UNCHANGED det_element
    /\ UNCHANGED <<run_vars, dbm_vars, tok_vars, cat_vars>>

\* one store and one element given to _extract_product_details
DetailsInit ==
    /\ InitRun({1}, 0, {<<>>})
    /\ DbIdle
    /\ TokenIdle
    /\ CategoriesStart("none", <<>>)
    /\ \E el \in DetailElements : DetailsStart(el)

DetailsNext ==
    \/ DetailsMissing
    \/ DetailsReturn

\* one call of _extract_product_details
DetailsSpec == DetailsInit /\ [][DetailsNext]_vars

(* ======================= properties of the claims ======================= *)
\* the entries of the log of s with this name for category c, in order
Entries(s, op, c) == SelectSeq(calls[s], LAMBDA e : e.op = op /\ e.category = c)
Count(s, op, c) == Len(Entries(s, op, c))
\* the categories of store s in the categories table
Cats(s) == {db_categories[s][k] : k \in 1..Len(db_categories[s])}
\* the categories get_categories_by_store gave the worker of s
Loaded(s) ==
    LET g == Entries(s, "get_categories_by_store", None)
    IN IF g = <<>> THEN <<>> ELSE g[1].arg
\* the expiry met at category c was not resolved: no token, or the retry expired too
UnresolvedExpiry(s, c) ==
    \/ Count(s, "TokenExpiredException", c) >= 2
    \/ \E i \in 1..Len(calls[s]) :
          /\ calls[s][i].op = "extract_token"
          /\ calls[s][i].category = c
          /\ calls[s][i].arg = None
\* scrape_store_products is executing for s
InCall(s) == pc[s] \notin {"idle", "queued", "returned", "collected"}
\* the call for s is over and returned this success flag
Returned(s, success) ==
    /\ pc[s] \in {"returned", "collected"}
    /\ ~future[s].exception
    /\ future[s].result[4] = success
RECURSIVE Flatten(_)
\* the products of the pages of a request log, in request order
Flatten(log) == IF log = <<>> THEN <<>> ELSE Head(log).parsed \o Flatten(Tail(log))
RECURSIVE HandedCount(_)
\* the number of products in the lists handed to bulk_upsert_products in a log
HandedCount(log) ==
    IF log = <<>> THEN 0
    ELSE (IF Head(log).op = "bulk_upsert_products" THEN Len(Head(log).arg) ELSE 0)
            + HandedCount(Tail(log))

\* C1: for every category, extract_token is called at most once, and exactly once as
\* soon as the handler of a TokenExpiredException of that category has run;
\* extract_products is called at most twice, and a second time exactly when
\* extract_token returned a token: no second refresh, no third attempt.
C1_RefreshOnceRetryOnce ==
    \A s \in StoreIds : \A c \in Cats(s) :
        LET toks == Entries(s, "extract_token", c)
            exts == Count(s, "extract_products", c)
            raised == Count(s, "TokenExpiredException", c)
            handling == pc[s] = "expired" /\ Category(s) = c
            deciding == pc[s] = "refreshed" /\ Category(s) = c
        IN /\ Len(toks) <= 1
           /\ exts <= 2
           /\ (Len(toks) = 1) <=> (raised >= 1 /\ ~handling)
           /\ (exts = 2) <=> (Len(toks) = 1 /\ toks[1].arg # None /\ ~deciding)
\* a retry that expired again: the call is over after one refresh and two attempts
C1_Witness ==
    \E s \in StoreIds : \E c \in Cats(s) :
        /\ pc[s] = "returned"
        /\ Count(s, "TokenExpiredException", c) = 2
        /\ Count(s, "extract_token", c) = 1
        /\ Count(s, "extract_products", c) = 2

\* C2: once the refresh gave no token, or the retry expired again, the call returns
\* success False, and no category after that one was attempted.
C2_UnresolvedExpiryFailsStore ==
    \A s \in StoreIds :
        (pc[s] = "returned" /\ \E c \in Cats(s) : UnresolvedExpiry(s, c)) =>
            /\ future[s].result[4] = FALSE
            /\ \A k \in 1..Len(Loaded(s)) :
                  UnresolvedExpiry(s, Loaded(s)[k]) =>
                      \A j \in (k + 1)..Len(Loaded(s)) :
                          Count(s, "extract_products", Loaded(s)[j]) = 0

\* C3: for a category whose first attempt raised expiry: nothing is upserted or
\* counted before the retry returned; the list of the retry is the products of the
\* retry's own pages; it is handed to bulk_upsert_products at most once; and the
\* count of the store is the number of products in the lists handed over.
C3_RetryCountedOnce ==
    \A s \in StoreIds :
        /\ InCall(s) => total_products[s] = HandedCount(calls[s])
        /\ (pc[s] = "returned" /\ Returned(s, TRUE)) =>
               future[s].result[3] = HandedCount(calls[s])
        /\ \A c \in Cats(s) :
              Count(s, "TokenExpiredException", c) >= 1 =>
                  LET handed == Entries(s, "bulk_upsert_products", c)
                      lists == Entries(s, "extract_products returned", c)
                  IN /\ Len(handed) <= 1
                     /\ Len(lists) <= 1
                     /\ lists = <<>> =>
                            /\ handed = <<>>
                            /\ \A r \in db_products : r.category_id # c
                     /\ (pc[s] = "got" /\ Category(s) = c) => products[s] = Flatten(reqs[s])
                     /\ Len(handed) = 1 => handed[1].arg = lists[1].arg
\* the first attempt expired after a page of products, the retry's list was upserted
\* and the call returned it in its count
C3_Witness ==
    \E s \in StoreIds : \E c \in Cats(s) :
        /\ pc[s] = "returned"
        /\ Returned(s, TRUE)
        /\ future[s].result[3] > 0
        /\ \E i \in 1..Len(calls[s]) :
              /\ calls[s][i].op = "TokenExpiredException"
              /\ calls[s][i].category = c
              /\ calls[s][i].arg # <<>>
        /\ Count(s, "bulk_upsert_products", c) = 1
        /\ Count(s, "error bulk upserting products", c) = 0
        /\ \E r \in db_products : r.category_id = c

\* C4: when the call is over, a category that was loaded but never attempted comes
\* after a category with an unresolved expiry: no other failure ends the for loop;
\* and without an unresolved expiry the call returns True.
C4_OnlyExpiryStopsTheLoop ==
    \A s \in StoreIds :
        pc[s] = "returned" =>
            /\ \A k \in 1..Len(Loaded(s)) :
                  \/ Count(s, "extract_products", Loaded(s)[k]) >= 1
                  \/ \E j \in 1..(k - 1) : UnresolvedExpiry(s, Loaded(s)[j])
            /\ (/\ Loaded(s) # <<>>
                /\ \A k \in 1..Len(Loaded(s)) : ~UnresolvedExpiry(s, Loaded(s)[k]))
                   => Returned(s, TRUE)
\* the retry of the first category met a network error and its upsert a database
\* error, and the second category was attempted all the same
C4_Witness ==
    \E s \in StoreIds :
        /\ pc[s] = "returned"
        /\ Len(Loaded(s)) = 2
        /\ Count(s, "TokenExpiredException", Loaded(s)[1]) = 1
        /\ Count(s, "error fetching products", Loaded(s)[1]) = 1
        /\ Count(s, "error bulk upserting products", Loaded(s)[1]) = 1
        /\ Count(s, "extract_products", Loaded(s)[2]) >= 1

\* C5: a non-empty list returned by extract_products is handed to
\* bulk_upsert_products by the very next thing the worker does (so before any later
\* extract_products call), and no step removes a row of the products table.
C5_HandedAtOnce ==
    \A s \in StoreIds : \A i \in 1..Len(calls[s]) :
        (calls[s][i].op = "extract_products returned" /\ calls[s][i].arg # <<>>) =>
            IF i = Len(calls[s]) THEN pc[s] = "got"
            ELSE /\ calls[s][i + 1].op = "bulk_upsert_products"
                 /\ calls[s][i + 1].category = calls[s][i].category
                 /\ calls[s][i + 1].arg = calls[s][i].arg
C5_RowsKept ==
    \A r \in db_products : \E q \in db_products' :
        q.store_id = r.store_id /\ q.product_id = r.product_id
C5_CheckpointedAndKept == []C5_HandedAtOnce /\ [][C5_RowsKept]_vars
\* the store failed at a later category and the rows of an earlier one are there
C5_Witness ==
    \E s \in StoreIds :
        /\ pc[s] = "returned"
        /\ Returned(s, FALSE)
        /\ Len(Loaded(s)) = 2
        /\ UnresolvedExpiry(s, Loaded(s)[2])
        /\ \E r \in db_products : r.store_id = s /\ r.category_id = Loaded(s)[1]

\* C6: at most MAX_WORKERS calls of scrape_store_products are executing.
C6_AtMostMaxWorkers == Cardinality(Running) <= MAX_WORKERS
\* all threads are busy and a store waits in the queue
C6_Witness == Cardinality(Running) = MAX_WORKERS /\ queue # <<>>

\* C7: successful and failed count the consumed futures by their success flag, each
\* store once, and the summary has successful + failed = number of stores loaded.
C7_EveryStoreCountedOnce ==
    LET counted == {s \in StoreIds : pc[s] = "collected"} IN
    /\ successful = Cardinality({s \in counted : Returned(s, TRUE)})
    /\ failed = Cardinality({s \in counted : Returned(s, FALSE)})
    /\ summary # None =>
          /\ summary[2] + summary[3] = summary[1]
          /\ summary[1] = Len(stores)
          /\ summary[1] = Cardinality(StoreIds)
          /\ summary[2] = successful /\ summary[3] = failed
          /\ counted = StoreIds
\* a summary with both counters used
C7_Witness == summary # None /\ summary[2] >= 1 /\ summary[3] >= 1

\* the call for s is over and the store failed: the call returned success False,
\* or it gave the store up on a credential expiry it could not resolve
StoreFailed(s) ==
    /\ pc[s] = "returned"
    /\ \/ Returned(s, FALSE)
       \/ \E c \in Cats(s) : UnresolvedExpiry(s, c)

\* C8: no exception leaves a store worker and the run is never aborted; whatever
\* another store did, a worker in its call can take its next step, a waiting store
\* starts when a thread is free and a finished one can be counted; and consuming the
\* future of a failed store adds one to failed and changes nothing else of the run.
C8_Contained ==
    /\ orch # "raised"
    /\ \A s \in StoreIds : ~future[s].exception
    /\ \A t \in StoreIds :
          /\ InCall(t) => ENABLED Worker(t)
          /\ (queue # <<>> /\ Head(queue) = t /\ Cardinality(Running) < MAX_WORKERS)
                 => ENABLED StartWorker(t)
          /\ (pc[t] = "returned" /\ orch = "collect") => ENABLED Collect(t)
    /\ summary # None => \A s \in StoreIds : pc[s] = "collected"
C8_FailureOnlyCounted ==
    \A s \in StoreIds :
        (StoreFailed(s) /\ pc'[s] = "collected") =>
            /\ failed' = failed + 1
            /\ successful' = successful
            /\ run_total' = run_total
            /\ orch' = orch
            /\ \A t \in StoreIds \ {s} : pc'[t] = pc[t] /\ future'[t] = future[t]
C8_FailedStoreIsolated == []C8_Contained /\ [][C8_FailureOnlyCounted]_vars

\* C9: every request of a call that is followed by another one returned a page with
\* parsed products; a call that ended on a page without parsed products returns the
\* products of the pages before it.
C9_StopsAtEmptyPage ==
    \A s \in StoreIds :
        /\ \A k \in 1..(Len(reqs[s]) - 1) :
              reqs[s][k].status = 200 /\ reqs[s][k].parsed # <<>>
        /\ (pc[s] = "got" /\ reqs[s][Len(reqs[s])].status = 200) =>
              /\ reqs[s][Len(reqs[s])].parsed = <<>>
              /\ products[s] = Flatten(SubSeq(reqs[s], 1, Len(reqs[s]) - 1))
\* the call ended on its third request, a page whose cards were all malformed, and
\* returned the products of the two pages before it
C9_Witness ==
    \E s \in StoreIds :
        /\ pc[s] = "got"
        /\ Len(reqs[s]) = 3
        /\ reqs[s][3].status = 200
        /\ reqs[s][3].cards > 0
        /\ reqs[s][3].parsed = <<>>
        /\ Len(products[s]) >= 2

\* C10: the k-th request of a call carries offset 12 * (k - 1).
C10_OffsetsStepByTwelve ==
    \A s \in StoreIds : \A k \in 1..Len(reqs[s]) :
        reqs[s][k].getresult = 12 * (k - 1)
\* three requests after pages of two products and of one product
C10_Witness ==
    \E s \in StoreIds :
        /\ Len(reqs[s]) = 3
        /\ Len(reqs[s][1].parsed) = 2
        /\ Len(reqs[s][2].parsed) = 1

\* the last entry of the log of s
LastCall(s) == calls[s][Len(calls[s])]

\* C11: a request answered 403 is the last request of its extract_products call; the
\* call is then over with TokenExpiredException raised to scrape_store_products
\* (its handler is running, or the whole call returned from the outer handler),
\* the error handlers of the loop logged nothing, and no list came back from it.
C11_ForbiddenRaises ==
    \A s \in StoreIds : \A k \in 1..Len(reqs[s]) :
        reqs[s][k].status = 403 =>
            /\ k = Len(reqs[s])
            /\ pc[s] \in {"expired", "returned"}
            /\ products[s] = <<>>
            /\ LET c == reqs[s][k].category_slug
                   raise == IF pc[s] = "expired" THEN Len(calls[s]) ELSE Len(calls[s]) - 1
               IN /\ calls[s][raise].op = "TokenExpiredException"
                  /\ calls[s][raise].category = c
                  /\ calls[s][raise - 1] = Call("extract_products", c, <<>>)
                  /\ Count(s, "extract_products", c)
                        = Count(s, "extract_products returned", c)
                            + Count(s, "TokenExpiredException", c)
\* the 403 came on the second page, after a page with products
C11_Witness ==
    \E s \in StoreIds :
        /\ pc[s] = "expired"
        /\ Len(reqs[s]) = 2
        /\ reqs[s][1].parsed # <<>>
        /\ reqs[s][2].status = 403

\* C12: a call whose last request failed in the network or with an HTTP error other
\* than 403 returned normally, with exactly the products of the pages before it;
\* nothing was raised, and the worker goes on with that list.
C12_NetworkFailureReturnsPartial ==
    \A s \in StoreIds :
        (reqs[s] # <<>> /\ reqs[s][Len(reqs[s])].status \notin {200, 403}) =>
            /\ pc[s] = "got"
            /\ products[s] = Flatten(SubSeq(reqs[s], 1, Len(reqs[s]) - 1))
            /\ LastCall(s) = Call("extract_products returned", Category(s), products[s])
            /\ ~future[s].exception
            /\ orch # "raised"
            /\ ENABLED (SaveProducts(s) \/ NoProducts(s))
\* the third request failed after two pages of products
C12_Witness ==
    \E s \in StoreIds :
        /\ pc[s] = "got"
        /\ Len(reqs[s]) = 3
        /\ reqs[s][3].status = 0
        /\ Len(products[s]) >= 2

\* the run of the scenario: two categories; the first gave a list of twelve without
\* an error or an expiry; the second expired on its first request, the refresh gave
\* a token and the retry gave a list of five without an error
Scenario(s) ==
    /\ Len(Loaded(s)) = 2
    /\ LET c1 == Loaded(s)[1]
           c2 == Loaded(s)[2]
           first == Entries(s, "extract_products returned", c1)
           expiry == Entries(s, "TokenExpiredException", c2)
           token == Entries(s, "extract_token", c2)
           retry == Entries(s, "extract_products returned", c2)
       IN /\ Len(first) = 1 /\ Len(first[1].arg) = 12
          /\ Count(s, "TokenExpiredException", c1) = 0
          /\ Count(s, "error fetching products", c1) = 0
          /\ Len(expiry) = 1 /\ expiry[1].arg = <<>>
          /\ Len(token) = 1 /\ token[1].arg # None
          /\ Len(retry) = 1 /\ Len(retry[1].arg) = 5
          /\ Count(s, "error fetching products", c2) = 0

\* C13: an extraction of the first category that got a page of twelve products and
\* then a page without cards made exactly these two requests and returned the
\* twelve; and the call of the scenario returns success True with count 17.
C13_ScenarioCountsSeventeen ==
    \A s \in StoreIds :
        /\ (/\ Len(reqs[s]) >= 2
            /\ reqs[s][1].category_slug = Loaded(s)[1]
            /\ reqs[s][1].status = 200 /\ Len(reqs[s][1].parsed) = 12
            /\ reqs[s][2].status = 200 /\ reqs[s][2].cards = 0) =>
               /\ Len(reqs[s]) = 2
               /\ pc[s] = "got"
               /\ Len(products[s]) = 12
        /\ (pc[s] = "returned" /\ Scenario(s)) =>
               future[s] = [result |-> <<s, s, 17, TRUE>>, exception |-> FALSE]
\* the call of the scenario is over
C13_Witness ==
    \E s \in StoreIds :
        /\ pc[s] = "returned"
        /\ Scenario(s)
        /\ future[s].result[3] = 17

\* C14: a call returns success False only when no categories were found or a
\* credential expiry was not resolved; every other call, also one whose categories
\* met errors, returns True, and none ends with an exception.
C14_FalseOnlyIfStoreUnprocessable ==
    \A s \in StoreIds :
        pc[s] = "returned" =>
            /\ ~future[s].exception
            /\ future[s].result[4] \in BOOLEAN
            /\ future[s].result[4] = FALSE =>
                  \/ Loaded(s) = <<>>
                  \/ \E c \in Cats(s) : UnresolvedExpiry(s, c)
\* both categories of the store raised an error and the call returned True
C14_Witness ==
    \E s \in StoreIds :
        /\ pc[s] = "returned"
        /\ Returned(s, TRUE)
        /\ Len(Loaded(s)) = 2
        /\ \A k \in 1..2 : Count(s, "error processing category", Loaded(s)[k]) = 1

RECURSIVE WrittenCount(_)
\* the number of products in the lists of a log whose bulk upsert did not fail
WrittenCount(log) ==
    IF log = <<>> THEN 0
    ELSE (IF /\ Head(log).op = "bulk_upsert_products"
             /\ ~(Len(log) >= 2 /\ log[2].op = "error bulk upserting products")
          THEN Len(Head(log).arg) ELSE 0)
            + WrittenCount(Tail(log))

\* C15: the product count a call returns is the number of products of the lists
\* whose bulk upsert did not fail.
C15_CountIsWritten ==
    \A s \in StoreIds :
        pc[s] = "returned" => future[s].result[3] = WrittenCount(calls[s])

\* C20: a call whose bulk upsert ended in a database error (a contention error that
\* outlasted the retries of get_connection is one) returns success False.
C20_FailedWriteFailsStore ==
    \A s \in StoreIds :
        (/\ pc[s] = "returned"
         /\ \E c \in Cats(s) : Count(s, "error bulk upserting products", c) >= 1) =>
            future[s].result[4] = FALSE

\* the rows of a table with the key of d
RowsOf(table, d) == {r \in table : ProductKey(r) = ProductKey(d)}
\* the call that just ended committed its batch
Committed == gc = "idle" /\ LastCommitted
\* the call that just ended committed the list the last committed call had
SameListAgain == Committed /\ prev_list # <<>> /\ ListOf(data) = prev_list

\* C16: after a committed batch every key of the batch has exactly one row, also
\* when the key is repeated in the list; and when the list is the one the table
\* received last, the table has the same keys and as many rows as before, and the
\* rows of the list keep created_at and the listed values and take the time of
\* this call, later than before, as updated_at and last_synced_at.
C16_UpsertIdempotent ==
    /\ Committed => \A i \in 1..Len(data) : Cardinality(RowsOf(tbl, data[i])) = 1
    /\ SameListAgain =>
          /\ Cardinality(tbl) = Cardinality(start_tbl)
          /\ {ProductKey(r) : r \in tbl} = {ProductKey(r) : r \in start_tbl}
          /\ \A r \in tbl :
                IF \E i \in 1..Len(data) : ProductKey(data[i]) = ProductKey(r)
                THEN \E q \in start_tbl :
                        /\ ProductKey(q) = ProductKey(r)
                        /\ r.created_at = q.created_at
                        /\ r.category_id = q.category_id
                        /\ r.is_active = q.is_active
                        /\ r.updated_at = data[1].updated_at
                        /\ r.last_synced_at = data[1].last_synced_at
                        /\ r.updated_at > q.updated_at
                        /\ r.last_synced_at > q.last_synced_at
                ELSE r \in start_tbl
\* a list with product 1 twice and product 2 was committed a third time
C16_Witness ==
    /\ SameListAgain
    /\ ncalls = 3
    /\ Len(data) = 2
    /\ data[1].product_id = data[2].product_id
    /\ data[1].category_id # data[2].category_id
    /\ \E r \in tbl : r.created_at < r.updated_at - 1

\* C17: no step removes a row of the products table or deactivates one; the rows of
\* a committed batch are active; and so is every row the calls created.
C17_Kept ==
    \A r \in tbl : \E q \in tbl' :
        /\ ProductKey(q) = ProductKey(r)
        /\ q.created_at = r.created_at
        /\ r.is_active => q.is_active
C17_Active ==
    /\ Committed => \A i \in 1..Len(data) : \A r \in RowsOf(tbl, data[i]) : r.is_active
    /\ \A r \in tbl : r.created_at >= 1 => r.is_active
C17_NeverDeletedNorDeactivated == []C17_Active /\ [][C17_Kept]_vars
\* the deactivated row of an earlier run was listed again and is active, and the
\* row of product 2, listed by the first call only, is still there and active
C17_Witness ==
    /\ Committed
    /\ ncalls = 3
    /\ \E r \in tbl : r.product_id = 1 /\ r.created_at = 0 /\ r.is_active /\ r.updated_at = 3
    /\ \E r \in tbl : r.product_id = 2 /\ r.updated_at = 1 /\ r.is_active
    /\ \A i \in 1..Len(data) : data[i].product_id = 1

\* C18: the committed table changes only by the commit that follows a body that ran
\* to its end, and then to the table with every row of the batch; while a call is
\* in progress and after a call that ended in an error it is the table the call
\* began with.
C18_OnlyCommitWrites ==
    tbl' # tbl =>
        /\ gc = "commit"
        /\ executed = Len(data)
        /\ conn = "open"
        /\ tbl' = executemany(start_tbl, data)
        /\ outcome' = Ended("none", "rowcount")
C18_AllOrNothing ==
    /\ gc # "idle" => tbl = start_tbl
    /\ (gc = "idle" /\ ~LastCommitted) => tbl = start_tbl
    /\ Committed => tbl = executemany(start_tbl, data)
    /\ gc = "commit" => txn = executemany(start_tbl, data)
C18_BatchAtomic == []C18_AllOrNothing /\ [][C18_OnlyCommitWrites]_vars
\* the second statement of a batch that creates a row raised, and the row of the
\* first is not in the table
C18_Witness ==
    /\ gc = "idle"
    /\ outcome = Ended("other", "0")
    /\ Len(data) = 2
    /\ executed = 1
    /\ RowsOf(tbl, data[1]) = {}
    /\ tbl = start_tbl

\* the attempts, errors and waits of the current or last call of get_connection
C19_Attempts ==
    /\ gc_attempt \in 0..(max_retries - 1)
    /\ Len(errs) <= max_retries
    /\ Len(waits) <= max_retries - 1
    /\ \A i \in 1..Len(waits) : waits[i] = retry_delay * 2^(i - 1)
    /\ \A i \in 1..Len(waits) : Retryable(errs[i])
    /\ gc \notin {"idle", "sleep"} => (Len(errs) = gc_attempt /\ Len(waits) = gc_attempt)
    /\ gc = "sleep" => (Len(errs) = gc_attempt + 1 /\ Len(waits) = gc_attempt + 1)
    /\ (gc = "idle" /\ outcome.raised \in {"pool exhausted", "deadlock", "other"}) =>
          /\ Len(errs) = gc_attempt + 1
          /\ Len(waits) = gc_attempt
          /\ outcome.raised = errs[Len(errs)]
          /\ Retryable(outcome.raised) => gc_attempt = max_retries - 1
\* the step at which the except clause handles an error: it goes on to a wait only
\* for pool exhaustion or a deadlock before the last attempt, and ends the call
\* without a wait for every other error
C19_Handled ==
    Len(errs') > Len(errs) =>
        LET e == errs'[Len(errs')]
        IN IF Retryable(e) /\ gc_attempt < max_retries - 1
           THEN gc' = "sleep" /\ waits' = Append(waits, retry_delay * 2^gc_attempt)
           ELSE gc' = "idle" /\ waits' = waits /\ gc_attempt' = gc_attempt
\* C19: get_connection makes at most max_retries attempts; it sleeps
\* retry_delay * 2^attempt after the attempt it retries (1, then 2); every error
\* it retried was pool exhaustion or a deadlock; and an error it re-raised was
\* either of another kind, re-raised at once, or the error of the last attempt.
C19_RetryOnlyContention == []C19_Attempts /\ [][C19_Handled]_vars
\* the pool was exhausted at all three attempts
C19_Witness ==
    /\ gc = "idle"
    /\ errs = <<"pool exhausted", "pool exhausted", "pool exhausted">>
    /\ waits = <<1, 2>>
    /\ outcome = Ended("pool exhausted", "0")

\* C21: a run that found no stores ends without a summary, without a worker having
\* started and without a write; and a store whose categories table is empty is not
\* counted as a failed store when its future is consumed.
C21_ConfigurationErrorIsNoOp ==
    /\ (orch = "done" /\ stores = <<>>) =>
          /\ summary = None
          /\ \A s \in StoreIds : pc[s] = "idle" /\ calls[s] = <<>>
          /\ db_products = {}
          /\ \A s \in StoreIds : db_stores[s].web_token = OldToken(s)
    /\ (orch = "done" /\ stores # <<>> /\ \A s \in StoreIds : db_categories[s] = <<>>) =>
          failed = 0

\* the extract_token calls that ended after meeting this at the homepage
TokenCalls(resp) == {i \in 1..Len(tk_log) : tk_log[i].resp = resp}

\* C22: an extract_token call that has left its body, by whatever exit, has slept
\* REQUEST_DELAY exactly once before leaving.
C22_DelayOnEveryExit ==
    /\ tk = "returned" => tk_slept = <<"REQUEST_DELAY">>
    /\ \A i \in 1..Len(tk_log) : tk_log[i].slept = <<"REQUEST_DELAY">>
\* four calls ended: token found, no token on the page, a network failure and an
\* unexpected error
C22_Witness ==
    /\ tk = "idle"
    /\ TokenCalls([status |-> 200, body |-> FreshToken(TokenStore)]) # {}
    /\ TokenCalls([status |-> 200, body |-> None]) # {}
    /\ TokenCalls(NetFail) # {}
    /\ TokenCalls(Unexpected) # {}

\* the homepage answered with a 2xx status
Status2xx(resp) == 200 <= resp.status /\ resp.status < 300
\* the homepage answered, and with a status that is not from 400 to 599
NoErrorStatus(resp) == resp.status >= 100 /\ ~(400 <= resp.status /\ resp.status < 600)
\* C23 as stated: a call that has returned did not raise, and returned None when the
\* request failed or was answered with a status that is not a 2xx
C23_NonSuccessYieldsNone ==
    tk = "returned" =>
        /\ ~tk_ret.raised
        /\ ~Status2xx(tk_resp) => tk_ret.value = None
\* C23, amended: an extract_token call leaves with a value and never with an
\* exception; the value is None when the request failed, was answered with a 4xx or
\* 5xx status, or the page has no token assignment, and it is the token of the page
\* for every other answer, a 3xx included; and no step of the call changes a table:
\* the stores table changes only in the step of the caller that follows the return.
C23_ReturnsTokenOrNone ==
    /\ tk = "returned" =>
          /\ ~tk_ret.raised
          /\ tk_ret.value = IF NoErrorStatus(tk_resp) THEN tk_resp.body ELSE None
          /\ tk_ret.value # None =>
                /\ tk_resp.body = FreshToken(TokenStore)
                /\ tk_resp.status \in {200, 304}
    /\ \A i \in 1..Len(tk_log) : ~tk_log[i].ret.raised
C23_CallWritesNothing ==
    /\ tk # "returned" => db_stores' = db_stores
    /\ db_categories' = db_categories /\ db_products' = db_products
C23_NeverRaisesNeverWrites == []C23_ReturnsTokenOrNone /\ [][C23_CallWritesNothing]_vars
\* calls that met an error page with the token, a page without it and an unexpected
\* error all returned None and the token in the stores table is the old one; the
\* call in progress was answered 304 with the token and has returned it, the caller
\* has not acted yet
C23_Witness ==
    /\ tk = "returned"
    /\ tk_resp = [status |-> 304, body |-> FreshToken(TokenStore)]
    /\ tk_ret = TokenEnd(FALSE, FreshToken(TokenStore))
    /\ db_stores[TokenStore].web_token = OldToken(TokenStore)
    /\ \E i \in TokenCalls([status |-> 404, body |-> FreshToken(TokenStore)]) :
           tk_log[i].ret = TokenEnd(FALSE, None)
    /\ \E i \in TokenCalls([status |-> 200, body |-> None]) :
           tk_log[i].ret = TokenEnd(FALSE, None)
    /\ \E i \in TokenCalls(Unexpected) : tk_log[i].ret = TokenEnd(FALSE, None)

\* C24: the stores table keeps its rows; a step changes at most the row of one
\* store, only its web_token, and only as the step of that store's own worker that
\* stores the token extract_token returned for it; and every request a worker of s
\* posts carries a token of s.
C24_OwnToken ==
    \A s \in StoreIds :
        /\ store_data[s].web_token \in {None, OldToken(s), FreshToken(s)}
        /\ \A i \in 1..Len(reqs[s]) : reqs[s][i].web_token \in {OldToken(s), FreshToken(s)}
        /\ db_stores[s].web_token \in {OldToken(s), FreshToken(s)}
C24_OwnRowOnly ==
    /\ DOMAIN db_stores' = DOMAIN db_stores
    /\ \A t \in StoreIds :
          db_stores'[t] # db_stores[t] =>
              /\ pc[t] = "refreshed" /\ pc'[t] = "extract"
              /\ new_token[t] = FreshToken(t)
              /\ db_stores'[t] = [db_stores[t] EXCEPT !.web_token = new_token[t]]
              /\ \A u \in StoreIds \ {t} : db_stores'[u] = db_stores[u]
C24_StoreRecordOnlyOwnCredential == []C24_OwnToken /\ [][C24_OwnRowOnly]_vars
\* two stores have posted requests: one has its refreshed token in the table and in
\* the request of its retry, the other has its old token in its row and in its
\* request
C24_Witness ==
    \E s \in StoreIds : \E t \in StoreIds \ {s} :
        /\ db_stores[s].web_token = FreshToken(s)
        /\ Len(reqs[s]) >= 1 /\ reqs[s][Len(reqs[s])].web_token = FreshToken(s)
        /\ db_stores[t].web_token = OldToken(t)
        /\ Len(reqs[t]) >= 1 /\ reqs[t][Len(reqs[t])].web_token = OldToken(t)

\* the log entries that end an extract_products call: its return, the expiry it
\* raised, or the error its arguments raised
ExtractionEnds == {"extract_products returned", "TokenExpiredException",
                   "error processing category"}
\* the extract_products calls of the first n log entries of s that have not ended
InProgress(s, n) ==
    Cardinality({i \in 1..n : calls[s][i].op = "extract_products"})
        - Cardinality({i \in 1..n : calls[s][i].op \in ExtractionEnds})

\* C25: in the log of a store worker at most one extract_products call is in
\* progress at any point, and it is the one the worker is inside of; every request
\* of the call in progress is for the category of the for loop; a token refresh and
\* an upsert happen only between extractions; and the log never returns to an
\* earlier category: everything done for a category, its retry included, precedes
\* everything done for the next one.
C25_CategoriesOneAfterAnother ==
    \A s \in StoreIds :
        /\ \A n \in 0..Len(calls[s]) : InProgress(s, n) \in {0, 1}
        /\ pc[s] \in {"start", "for", "extract", "got", "expired", "refreshed", "returned"} =>
              InProgress(s, Len(calls[s])) = IF pc[s] = "extract" THEN 1 ELSE 0
        /\ \A n \in 1..Len(calls[s]) :
              calls[s][n].op \in {"bulk_upsert_products", "extract_token", "update_store_token"}
                  => InProgress(s, n - 1) = 0
        /\ pc[s] = "extract" =>
              \A i \in 1..Len(reqs[s]) : reqs[s][i].category_slug = Category(s)
        /\ \A i, j \in 1..Len(calls[s]) :
              (i < j /\ calls[s][i].category # None /\ calls[s][j].category # None)
                  => calls[s][i].category[2] <= calls[s][j].category[2]
\* the first category expired, was retried with a fresh token and upserted, and the
\* extraction of the second category is in progress
C25_Witness ==
    \E s \in StoreIds :
        /\ pc[s] = "extract" /\ idx[s] = 2
        /\ Count(s, "extract_products", categories[s][1]) = 2
        /\ Count(s, "bulk_upsert_products", categories[s][1]) = 1
        /\ Len(reqs[s]) >= 1

\* C26: a store leaves the queue only while fewer than MAX_WORKERS calls are
\* running, so with more stores than threads the later ones wait; a store is
\* started once, from the queue, and counted once, after its call returned; the
\* summary is there only when every store has been counted; and once the stores
\* are loaded, the run reaches the summary with every store counted.
C26_SummaryAfterAll ==
    /\ Cardinality(Running) <= MAX_WORKERS
    /\ summary # None => \A s \in StoreIds : pc[s] = "collected"
    /\ \A i, j \in 1..Len(queue) : queue[i] = queue[j] => i = j
    /\ \A s \in StoreIds : pc[s] = "queued" <=> \E i \in 1..Len(queue) : queue[i] = s
C26_StartedOnce ==
    \A s \in StoreIds :
        /\ (pc[s] # "start" /\ pc'[s] = "start") =>
              /\ pc[s] = "queued"
              /\ Cardinality(Running) < MAX_WORKERS
        /\ (pc[s] # "collected" /\ pc'[s] = "collected") => pc[s] = "returned"
        /\ pc[s] = "collected" => pc'[s] = "collected"
        /\ pc[s] # "idle" => pc'[s] \notin {"idle", "queued"} \/ pc'[s] = pc[s]
C26_EveryStoreEventuallyOnce ==
    /\ []C26_SummaryAfterAll
    /\ [][C26_StartedOnce]_vars
    /\ (Len(stores) = NumStores) ~>
           (summary # None /\ summary[1] = NumStores
               /\ \A s \in 1..NumStores : pc[s] = "collected")
\* more stores than threads, and the summary of a run that counted all of them
C26_Witness ==
    /\ NumStores > MAX_WORKERS
    /\ orch = "done"
    /\ summary # None /\ summary[1] = NumStores
    /\ \A s \in 1..NumStores : pc[s] = "collected"

\* the answer to the i-th request was a full page of per_page entries
FullAnswer(i) == Served(i).status = 200 /\ Len(Served(i).tpl) = per_page

\* C27: the i-th request of the REST extractor asks for page i with per_page 100;
\* every request but the last one was answered with a full page; and when the call is
\* over, the last request was not answered with a full page.
C27_StopsExactlyAtShortPage ==
    cat_kind = "rest" =>
        /\ \A i \in 1..Len(cat_reqs) : cat_reqs[i] = [page |-> i, per_page |-> per_page]
        /\ \A i \in 1..(Len(cat_reqs) - 1) : FullAnswer(i)
        /\ cat_pc = "done" => Len(cat_reqs) >= 1 /\ ~FullAnswer(Len(cat_reqs))

\* the entries of an answer that have every field (and a name the filter knows)
WellFormed(p) ==
    Ids(SelectSeq(Entries_(Served(p).tpl, p),
                  LAMBDA e : e.kind \in {"ok", "same_slug"}
                             \/ (e.kind = "other_name" /\ ~cat_site.category_filter)))
RECURSIVE Listing(_)
\* the well-formed entries of the listing from page p on: a failed request ends the
\* listing, a short page is its last page (the HTML listing has the one page)
Listing(p) ==
    IF Served(p).status # 200 THEN <<>>
    ELSE IF cat_kind = "html" \/ Len(Served(p).tpl) < per_page THEN WellFormed(p)
    ELSE WellFormed(p) \o Listing(p + 1)

\* C28: a call of either variant returns every well-formed entry of the listing, in
\* order, whatever partial or malformed entries stand between them.
C28_MalformedEntrySkipped ==
    cat_pc = "done" => cat_list = Listing(1)
\* C28 for the variant that parses allcategory.html alone
C28_HtmlOnly == (cat_kind = "html" /\ cat_pc = "done") => cat_list = Listing(1)

\* the fragments of a page that have the detail link, the h6 with the name and the
\* button with the native product id
Complete(html) == SelectSeq(html, LAMBDA element : element.kind = "card")

\* C29: the products parsed from the answer to a request are exactly the complete
\* fragments of its page, one product each with the fragment's native id, in page
\* order: a fragment without link, name or id is left out and nothing else is.
C29_IncompleteFragmentDropped ==
    \A s \in StoreIds : \A i \in 1..Len(reqs[s]) :
        LET r == reqs[s][i] IN
        r.status = 200 =>
            /\ Len(r.parsed) = Len(Complete(r.html))
            /\ \A j \in 1..Len(r.parsed) :
                  r.parsed[j] = [store_id |-> s, category_id |-> r.category_slug,
                                 product_id |-> Complete(r.html)[j].product_id]
\* a page whose first fragment has no link was answered: the second one was parsed
C29_Witness ==
    \E s \in StoreIds : \E i \in 1..Len(reqs[s]) :
        LET r == reqs[s][i] IN
        /\ r.status = 200
        /\ Len(r.html) = 2 /\ r.html[1].kind = "no_link" /\ r.html[2].kind = "card"
        /\ Len(r.parsed) = 1 /\ r.parsed[1].product_id = r.getresult + 1

\* C30: no step of the run changes the categories table; no extract_categories
\* call of either variant is ever in progress or logged; and what a worker got
\* from get_categories_by_store is the rows the table had, or nothing.
C30_NoExtractor ==
    /\ cat_pc = "idle" /\ cat_reqs = <<>> /\ cat_list = <<>>
    /\ \A s \in StoreIds : \A i \in 1..Len(calls[s]) :
          /\ calls[s][i].op # "extract_categories"
          /\ calls[s][i].op = "get_categories_by_store" =>
                calls[s][i].arg \in {<<>>, db_categories[s]}
C30_CategoriesKept == db_categories' = db_categories
C30_RunOnlyReadsCategories == []C30_NoExtractor /\ [][C30_CategoriesKept]_vars
\* the run is over: a store with categories was scraped and its products written,
\* and another store had no categories
C30_Witness ==
    /\ orch = "done" /\ summary # None
    /\ \E s \in StoreIds : db_categories[s] # <<>> /\ \E r \in db_products : r.store_id = s
    /\ \E t \in StoreIds : db_categories[t] = <<>>

\* the text reads "sold out" in some mix of upper and lower case
ReadsSoldOut(text) ==
    /\ Len(text) = Len(SoldOut)
    /\ \A i \in 1..Len(SoldOut) :
          \/ text[i] = SoldOut[i]
          \/ SoldOut[i] \in 97..122 /\ text[i] = SoldOut[i] - 32

\* C31: a product that was parsed is out_of_stock when the text of its button
\* reads "sold out" in any mix of cases, and in_stock for every other text, the
\* empty one included.
C31_SoldOutIsOutOfStock ==
    (det_pc = "returned" /\ det_result # None) =>
        det_result[1].stock_status =
            IF ReadsSoldOut(strip(det_element.button_text)) THEN "out_of_stock"
            ELSE "in_stock"
\* a card whose button reads SOLD OUT was parsed as out of stock
C31_Witness ==
    /\ det_pc = "returned"
    /\ det_element.button_text = Text(<<"S", "O", "L", "D", " ", "O", "U", "T">>)
    /\ det_result # None
    /\ det_result[1].stock_status = "out_of_stock"

\* C32: every request of a retry carries the token the stores table holds for the
\* store at that time.
C32_RetryTokenPersisted ==
    \A s \in StoreIds :
        (pc[s] \in {"extract", "got"} /\ attempt[s] = 2) =>
            /\ store_data[s].web_token = db_stores[s].web_token
            /\ \A i \in 1..Len(reqs[s]) : reqs[s][i].web_token = db_stores[s].web_token

\* the rows of the products table that belong to store s
StoreRows(s) == {r \in db_products : r.store_id = s}

\* C33: every row of the products table, and every product a worker hands to
\* bulk_upsert_products, carries the id of the worker's own store and a category of
\* that store; a step changes the rows of one store at most, and it is the step of
\* that store's worker that saves the products it holds, so a row of store s is
\* never written by the worker of another store.
C33_OwnRows ==
    /\ \A r \in db_products : r.store_id \in StoreIds /\ r.category_id \in Cats(r.store_id)
    /\ \A s \in StoreIds :
          /\ \A i \in 1..Len(products[s]) :
                products[s][i].store_id = s /\ products[s][i].category_id \in Cats(s)
          /\ \A i \in 1..Len(calls[s]) :
                calls[s][i].op = "bulk_upsert_products" =>
                    \A j \in 1..Len(calls[s][i].arg) :
                        /\ calls[s][i].arg[j].store_id = s
                        /\ calls[s][i].arg[j].category_id \in Cats(s)
C33_OwnWriter ==
    \A s \in StoreIds :
        StoreRows(s)' # StoreRows(s) =>
            /\ pc[s] = "got" /\ pc'[s] = "for"
            /\ \A t \in StoreIds \ {s} : StoreRows(t)' = StoreRows(t)
C33_DisjointProductKeys == []C33_OwnRows /\ [][C33_OwnWriter]_vars
\* two stores have a row for the same native product id, and the worker of one of
\* them saved it while the other worker was inside its call
C33_Witness ==
    \E s, t \in StoreIds :
        /\ s # t
        /\ \E r \in StoreRows(s) : \E q \in StoreRows(t) : r.product_id = q.product_id
        /\ InCall(s) /\ InCall(t)

\* the worker of s has stored a token that extract_token returned
Refreshed(s) == \E i \in 1..Len(calls[s]) : calls[s][i].op = "update_store_token"

\* C34: before a refresh the requests of a worker carry the token of the store row;
\* once the worker has refreshed, its store_data and every request of the retry and
\* of the categories after it carry the refreshed token; and extract_token is
\* called at most once for a category.
C34_RefreshedTokenFromThenOn ==
    \A s \in StoreIds :
        /\ InCall(s) /\ pc[s] # "start" =>
              store_data[s].web_token = IF Refreshed(s) THEN FreshToken(s) ELSE OldToken(s)
        /\ \A i \in 1..Len(reqs[s]) :
              reqs[s][i].web_token = IF Refreshed(s) THEN FreshToken(s) ELSE OldToken(s)
        /\ \A c \in Cats(s) : Count(s, "extract_token", c) <= 1
\* the token was refreshed in the first category and a request of the second
\* category has been answered
C34_Witness ==
    \E s \in StoreIds :
        /\ idx[s] = 2 /\ pc[s] = "extract"
        /\ Count(s, "update_store_token", categories[s][1]) = 1
        /\ Len(reqs[s]) >= 1
        /\ reqs[s][1].web_token = FreshToken(s)

\* the product count in the result tuple of the call for s
ReportedCount == [s \in StoreIds |-> IF future[s].result = None THEN 0 ELSE future[s].result[3]]

\* C35: a call that returned success False reports the count 0, whatever it wrote;
\* the running total is the sum of the counts of the stores counted as successful;
\* and the total of the summary is that sum over all stores.
C35_TotalOfSuccessfulOnly ==
    /\ \A s \in StoreIds : Returned(s, FALSE) => future[s].result[3] = 0
    /\ run_total = Total(ReportedCount, {s \in StoreIds : pc[s] = "collected" /\ Returned(s, TRUE)})
    /\ summary # None =>
          summary[4] = Total(ReportedCount, {s \in StoreIds : Returned(s, TRUE)})
\* the summary of a run whose store failed in its second category after the products
\* of the first one were committed: the total is 0
C35_Witness ==
    /\ summary # None /\ summary[3] = 1 /\ summary[4] = 0
    /\ \E s \in StoreIds :
          /\ Returned(s, FALSE)
          /\ \E r \in db_products : r.store_id = s


\* C37: when a call of get_connection is over, the connection it took from the pool
\* has been closed: between two database operations none is checked out.
C37_NoConnectionCheckedOut == gc = "idle" => conn \notin {"open", "lost"}

\* the body of the with statement is left by a database error
BodyRaises == gc = "body" /\ gc' # "body" /\ errs' # errs
\* C38: an error raised in the body ends the with statement at once and reaches the
\* caller as that error; and no connection is yielded once one was yielded for the
\* same with statement.
C38_BodyError ==
    /\ BodyRaises => (gc' = "idle" /\ outcome'.raised = errs'[Len(errs')])
    /\ yielded => ~(gc = "acquire" /\ gc' # "acquire" /\ errs' = errs)
C38_BodyOnceErrorReachesCaller == [][C38_BodyError]_vars


\* a request that ends the loop of extract_products: a 403, an error, or a page
\* without a parsed product
Terminal(req) == req.status # 200 \/ req.parsed = <<>>
\* the requests of the current or last call of extract_products for s: all but the
\* last got a page with products, and the call is over exactly when the last one
\* was a terminal request
C36_ReturnsOnlyAtEnd ==
    \A s \in StoreIds :
        reqs[s] # <<>> =>
            /\ \A i \in 1..(Len(reqs[s]) - 1) : ~Terminal(reqs[s][i])
            /\ (pc[s] # "extract") <=> Terminal(reqs[s][Len(reqs[s])])
\* C36: against an upstream that stops serving products after finitely many pages
\* every call of extract_products ends; and it ends only at a terminal request, never
\* by a page cap of its own, however many pages with products came before.
C36_TerminatesOnlyAtTerminalPage ==
    /\ []C36_ReturnsOnlyAtEnd
    /\ \A s \in 1..NumStores : (pc[s] = "extract") ~> (pc[s] # "extract")
\* a call that went through as many pages with products as the upstream serves and
\* returned at the empty page after them
C36_Witness ==
    \E s \in StoreIds :
        /\ pc[s] = "got"
        /\ Len(reqs[s]) = MaxPages + 1
        /\ reqs[s][MaxPages + 1].status = 200
        /\ Len(products[s]) >= MaxPages

====
